---- MODULE Spec2Model ----
(***************************************************************************)
(* Session/message state machine of the AIDLEX chat application.           *)
(*                                                                         *)
(* The repository holds two builds of the chat view over one session       *)
(* service (src/unnamed/part_005) and one user service                     *)
(* (src/services/userService.ts):                                          *)
(*   "ChatUI"    src/components/ChatUI.tsx with the streaming backend of   *)
(*               src/services/geminiService.ts;                            *)
(*   "part_000"  src/unnamed/part_000 with the one-shot backend of         *)
(*               src/unnamed/part_003.                                     *)
(* The variable ui says which build is running.                            *)
(*                                                                         *)
(* Strings are sequences of tokens; a token is a character or a whole      *)
(* fixed phrase of the source.  An optional field (undefined / absent in   *)
(* the source, null in localStorage) is a sequence of length 0 or 1.       *)
(***************************************************************************)
EXTENDS Naturals, Integers, Sequences, FiniteSets, TLC

VARIABLES
    ui,                \* which build of the chat view is running
    recognition,       \* the window has (webkit)SpeechRecognition
    now,               \* Date.now()
    ls,                \* localStorage: chats, order, current, user keys
    mounted,           \* ChatUI is rendered (App.isChatVisible)
    sessions,          \* ChatUI state: sessions
    sessionOrder,      \* ChatUI state: sessionOrder
    currentSessionId,  \* ChatUI state: currentSessionId
    isStreaming,       \* ChatUI state: isStreaming (isThinking in part_000)
    userName,          \* ChatUI state: userName
    authStatus,        \* ChatUI state: authStatus
    calls,             \* handleSendMessage invocations suspended at an await
    audioCache,        \* ChatUI state: audioCache (indices with audio)
    audioLoadingState, \* ChatUI state: audioLoadingState (indices loading)
    tts,               \* getTextToSpeech requests in flight
    crashed,           \* a state updater threw while rendering
    player,            \* speakingMessageIndex, audioSourceRef, the audio outputs
    steps,             \* handlers and callbacks run so far
    arg,               \* the argument a function of the source is applied to
    res                \* what the function returned, once it was applied

vars == <<ui, recognition, now, ls, mounted, sessions, sessionOrder, currentSessionId,
          isStreaming, userName, authStatus, calls, audioCache,
          audioLoadingState, tts, crashed, player, steps, arg, res>>

\* the state of the chat view and of localStorage
chatVars == <<ui, recognition, now, ls, mounted, sessions, sessionOrder, currentSessionId,
              isStreaming, userName, authStatus, calls, audioCache,
              audioLoadingState, tts, crashed, player, steps>>

-----------------------------------------------------------------------------
(* Bounds of the model.                                                    *)

MaxSteps == 6
MaxClock == 1
MaxCalls == 2
MaxChunks == 2
MaxText == 6
MaxParts == 3
MaxConnects == 2
MaxQueries == 2
MaxEvents == 7
MaxHistory == 2
MaxBatches == 1
MaxFragments == 2
MaxSources == 1
MaxClears == 2
MaxCreated == 2
MaxContent == 2
MaxTurns == 3
MaxLive == 4

-----------------------------------------------------------------------------
(* Optional values and small helpers.                                      *)

Undef == << >>
Def(x) == <<x>>
IsDef(o) == Len(o) = 1
Val(o) == o[1]

EmptyMap == << >>
Put(f, k, v) == [x \in (DOMAIN f) \cup {k} |-> IF x = k THEN v ELSE f[x]]

Min(a, b) == IF a < b THEN a ELSE b

RECURSIVE Concat(_)
Concat(texts) ==
    IF texts = << >> THEN << >> ELSE Head(texts) \o Concat(Tail(texts))

\* String.prototype.slice(0, n)
Slice0(s, n) == SubSeq(s, 1, Min(n, Len(s)))

\* String.prototype.trim over the whitespace token " "
RECURSIVE TrimStart(_)
TrimStart(s) ==
    IF s # << >> /\ s[1] = " " THEN TrimStart(Tail(s)) ELSE s

RECURSIVE TrimEnd(_)
TrimEnd(s) ==
    IF s # << >> /\ s[Len(s)] = " " THEN TrimEnd(SubSeq(s, 1, Len(s) - 1)) ELSE s

Trim(s) == TrimEnd(TrimStart(s))

-----------------------------------------------------------------------------
(* Fixed phrases of the source.                                            *)

NewChatTitle == <<"New chat">>
Ellipsis == <<"...">>
TitleLen == 40

\* LABELS[code] for the service codes the model draws
LABELS(code) ==
    IF code = "research" THEN "Structured Legal Research" ELSE "Web-Grounded Research"

OnboardingGreeting ==
    <<"Welcome to AIDLEX.AE. To provide a personalized experience, may I know your name, please?">>
WelcomeBack(name, code) ==
    IF code # "none" /\ code # "research"
    THEN <<"Welcome back, ">> \o name \o <<". You've selected **", LABELS(code),
           "**. How can I assist you with this topic?">>
    ELSE IF code = "research"
    THEN <<"Welcome back, ">> \o name
           \o <<". What legal topic would you like to research today?">>
    ELSE <<"Welcome back, ">> \o name \o <<"! How can I help you today?">>

-----------------------------------------------------------------------------
(* Messages and sessions (src/types.ts).                                   *)

\* a ChatMessage literal { role, content } before addMessageToSession stamps it
Msg(role, content) ==
    [role |-> role, content |-> content, ts |-> 0, sources |-> Undef,
     messageType |-> "undefined", suggestedReplies |-> Undef,
     error |-> FALSE, promptForRetry |-> Undef, researchData |-> Undef,
     fileData |-> Undef]

-----------------------------------------------------------------------------
(* Session service (src/unnamed/part_005) over a localStorage value.       *)

loadSessions(store) == IF IsDef(store.chats) THEN Val(store.chats) ELSE EmptyMap
loadOrder(store) == IF IsDef(store.order) THEN Val(store.order) ELSE << >>
saveSessions(store, obj) == [store EXCEPT !.chats = Def(obj)]
saveOrder(store, arr) == [store EXCEPT !.order = Def(arr)]
setCurrentSessionId(store, id) == [store EXCEPT !.current = Def(id)]
getCurrentSessionId(store) == store.current

saveSessionsAndReturn(store, session) ==
    LET all == Put(loadSessions(store), session.id, session)
    IN  [ls |-> saveSessions(store, all), sessions |-> all]

clearAllSessionsKeepsCurrent(store) ==
    [store EXCEPT !.chats = Undef, !.order = Undef]

clearAllSessions(store) ==
    [store EXCEPT !.chats = Undef, !.order = Undef, !.current = Undef]

getUserName(store) == store.user_name

\* an empty name is falsy
Truthy(o) == IsDef(o) /\ Val(o) # << >>

createNewSessionNoGreeting(store, t, title, code) ==
    LET newSession ==
            [id |-> t, title |-> title, createdAt |-> t,
             meta |-> [code |-> code, persona |-> "default",
                       needsOnboarding |-> ~Truthy(getUserName(store))],
             messages |-> << >>]
        s1 == saveSessions(store, Put(loadSessions(store), t, newSession))
        s2 == saveOrder(s1, <<t>> \o loadOrder(store))
    IN  [ls |-> setCurrentSessionId(s2, t), session |-> newSession]

createNewSession(store, t, title, code) ==
    LET name == getUserName(store)
        needsOnboarding == ~Truthy(name)
        initialMessage ==
            [Msg("model", IF needsOnboarding THEN OnboardingGreeting
                          ELSE WelcomeBack(Val(name), code))
                EXCEPT !.ts = t, !.messageType = "standard"]
        newSession ==
            [id |-> t, title |-> title, createdAt |-> t,
             meta |-> [code |-> code, persona |-> "default",
                       needsOnboarding |-> needsOnboarding],
             messages |-> <<initialMessage>>]
        s1 == saveSessions(store, Put(loadSessions(store), t, newSession))
        s2 == saveOrder(s1, <<t>> \o loadOrder(store))
    IN  [ls |-> setCurrentSessionId(s2, t), session |-> newSession]

addMessageToSessionKeepsReplies(store, t, sessionId, message) ==
    LET all == loadSessions(store)
    IN  IF sessionId \notin DOMAIN all
        THEN [ls |-> store, session |-> Undef]
        ELSE LET session == all[sessionId]
                 s2 == [session EXCEPT
                           !.messages = Append(@, [message EXCEPT !.ts = t])]
             IN  [ls |-> saveSessions(store, Put(all, sessionId, s2)),
                  session |-> Def(s2)]

addMessageToSession(store, t, sessionId, message) ==
    LET all == loadSessions(store)
    IN  IF sessionId \notin DOMAIN all
        THEN [ls |-> store, session |-> Undef]
        ELSE LET session == all[sessionId]
                 n == Len(session.messages)
                 cleared ==
                     IF /\ message.role = "user"
                        /\ n > 0
                        /\ session.messages[n].role = "model"
                     THEN [session.messages EXCEPT ![n].suggestedReplies = Undef]
                     ELSE session.messages
                 pushed == Append(cleared, [message EXCEPT !.ts = t])
                 title == IF /\ session.title = NewChatTitle
                             /\ message.role = "user"
                             /\ ~session.meta.needsOnboarding
                          THEN Slice0(message.content, TitleLen)
                               \o (IF Len(message.content) > TitleLen
                                   THEN Ellipsis ELSE << >>)
                          ELSE session.title
                 s2 == [session EXCEPT !.messages = pushed, !.title = title]
             IN  [ls |-> saveSessions(store, Put(all, sessionId, s2)),
                  session |-> Def(s2)]

-----------------------------------------------------------------------------
(* User service (src/services/userService.ts).                             *)

setUserName(store, name) == [store EXCEPT !.user_name = Def(name)]
getAuthStatus(store) ==
    IF IsDef(store.auth_status) THEN Val(store.auth_status) ELSE "guest"
setAuthStatus(store, status) == [store EXCEPT !.auth_status = Def(status)]
setUserContactInfo(store, email) == [store EXCEPT !.user_email = Def(email)]
logoutUser(store) ==
    [store EXCEPT !.user_name = Undef, !.auth_status = Undef, !.user_email = Undef]

-----------------------------------------------------------------------------
(* Response classifier.                                                    *)

\* text.match(/\<\<([^\>]+)\>\>/g) finds a match
HasPlaceholder(text) ==
    \E i \in 1..Len(text) : \E j \in (i + 3)..(Len(text) - 1) :
        /\ text[i] = "<" /\ text[i + 1] = "<"
        /\ \A k \in (i + 2)..(j - 1) : text[k] # ">"
        /\ text[j] = ">" /\ text[j + 1] = ">"

checkPlaceholdersNever(text) == "standard"

checkPlaceholders(text) == IF HasPlaceholder(text) THEN "wizard" ELSE "standard"

-----------------------------------------------------------------------------
(* Inputs drawn by the environment.                                        *)

Codes == {"none", "research", "research-web"}
\* what the composer holds when a send is asked for: the text and the file
Composed == {[input |-> <<" ", "p">>, file |-> Undef],
             [input |-> <<"q">>, file |-> Def("doc.pdf")],
             [input |-> <<" ">>, file |-> Def("doc.pdf")]}
ChunkTexts == {<<"a">>, <<"<", "<", "x", ">", ">">>}
\* what the grounded backend answers: the cited sources and the text
Grounded == {[sources |-> <<"src1">>, text |-> <<"a">>],
             [sources |-> << >>, text |-> << >>]}
Bundles == {"bundle1"}
Emails == {"e@x"}

ChatReplies == <<"Tell me more.", "What's next?", "How does that apply?">>
GroundedReplies == <<"Summarize this.", "What are the key points?", "Find more sources.">>
BriefText == <<"Here is the structured research brief you requested.">>
SorryText == <<"Sorry, I encountered an error. Please try again.">>

-----------------------------------------------------------------------------
(* The audio outputs of the chat view.  ChatUI.tsx plays AudioBufferSource-  *)
(* Nodes: sources lists the nodes created, each with the index it plays, the *)
(* speakingMessageIndex its onended closure holds (seen), whether it is      *)
(* playing, stopped (its ended event is due) or done, and whether the view   *)
(* that made it is still mounted.  part_000 speaks through speechSynthesis:  *)
(* queue is its utterance queue, ends lists the cancelled utterances whose   *)
(* end events are still to be delivered; an utterance is the ts of its       *)
(* message and whether the view that spoke it is still mounted.  Only the    *)
(* cleanups of part_000 depend on speech recognition, so the streaming build *)
(* is taken in a window that has it.                                         *)

NoPlayer ==
    [speaking |-> Undef, ref |-> Undef, sources |-> << >>, queue |-> << >>, ends |-> << >>]

\* audioSourceRef.current?.stop()
stopNothing(p) == p

stop(p) ==
    IF IsDef(p.ref) /\ p.sources[Val(p.ref)].state = "playing"
    THEN [p EXCEPT !.sources[Val(p.ref)].state = "stopped"]
    ELSE p

\* window.speechSynthesis.cancel(); late: the browser still delivers the end
\* event of the utterance it was speaking
cancel(p, late) ==
    [p EXCEPT !.queue = << >>,
              !.ends = IF p.queue # << >> /\ late THEN Append(@, p.queue[1]) ELSE @]

Utterance(ts) == [ts |-> ts, live |-> TRUE]

\* the effect cleanups of the chat view at unmount; the callbacks of what it
\* left behind find no component to update.  part_000 registers the cleanup
\* that cancels the speech only in a window with speech recognition: without
\* it the utterance being spoken stays in the browser's queue.
Unmounted(p) ==
    IF ui = "ChatUI"
    THEN LET q == stop(p)
         IN  [NoPlayer EXCEPT !.sources =
                 [s \in DOMAIN q.sources |-> [q.sources[s] EXCEPT !.live = FALSE]]]
    ELSE IF recognition
    THEN NoPlayer
    ELSE [NoPlayer EXCEPT !.queue =
             [k \in DOMAIN p.queue |-> [p.queue[k] EXCEPT !.live = FALSE]]]

-----------------------------------------------------------------------------
(* State of the page after App's init effect on an empty localStorage     *)
(* (src/unnamed/part_006, lines 19-29): one session exists, no chat view.  *)

EmptyStorage ==
    [chats |-> Undef, order |-> Undef, current |-> Undef,
     user_name |-> Undef, auth_status |-> Undef, user_email |-> Undef]

\* the store after App's init effect, and after startChat(code) on it
InitialStore == createNewSession(EmptyStorage, 0, NewChatTitle, "none").ls

StartedStore(code) ==
    LET all == loadSessions(InitialStore)
        session == all[0]
        saved == IF session.meta.code # code
                 THEN saveSessions(InitialStore,
                          Put(all, session.id, [session EXCEPT !.meta.code = code]))
                 ELSE InitialStore
    IN  setCurrentSessionId(saved, session.id)

\* the page at the time t; open: startChat(code) has shown the chat view
\* (the useState initialisers of ChatUI have read the store)
Page(t, open, code) ==
    /\ ui \in {"ChatUI", "part_000"}
    /\ recognition \in IF ui = "ChatUI" THEN {TRUE} ELSE BOOLEAN
    /\ now = t
    /\ ls = IF open THEN StartedStore(code) ELSE InitialStore
    /\ mounted = open
    /\ sessions = IF open THEN loadSessions(ls) ELSE EmptyMap
    /\ sessionOrder = IF open THEN loadOrder(ls) ELSE << >>
    /\ currentSessionId = IF open THEN getCurrentSessionId(ls) ELSE Undef
    /\ isStreaming = FALSE
    /\ userName = Undef
    /\ authStatus = "guest"
    /\ calls = << >>
    /\ audioCache = {}
    /\ audioLoadingState = {}
    /\ tts = << >>
    /\ crashed = FALSE
    /\ player = NoPlayer
    /\ steps = 0

ChatInit == Page(0, FALSE, "none")

Init ==
    /\ ChatInit
    /\ arg = << >>
    /\ res = Undef

\* one more handler or callback runs, within the explored length
Step ==
    /\ steps < MaxSteps
    /\ steps' = steps + 1
    /\ UNCHANGED <<arg, res>>

RemoveAt(s, i) == SubSeq(s, 1, i - 1) \o SubSeq(s, i + 1, Len(s))

\* the chat view is unmounted: its pending closures update nothing any more
Orphaned(cs) == [i \in DOMAIN cs |-> [cs[i] EXCEPT !.live = FALSE]]

\* Date.now() advances
Tick ==
    /\ Step
    /\ now < MaxClock
    /\ now' = now + 1
    /\ UNCHANGED <<ui, recognition, ls, mounted, sessions, sessionOrder, currentSessionId,
                   isStreaming, userName, authStatus, calls, audioCache,
                   audioLoadingState, tts, crashed, player>>

-----------------------------------------------------------------------------
(* src/components/ChatUI.tsx: the streaming build.                         *)

HasAuthPrompt(msgs) == \E k \in 1..Len(msgs) : msgs[k].messageType = "auth_prompt"

\* ChatUI.addMessage: the store appends, the state takes the stored session
addMessageUnguarded(st, t, sessionId, message) ==
    LET r == addMessageToSession(st.ls, t, sessionId, message)
    IN  [st EXCEPT !.ls = r.ls,
                   !.sessions = Put(st.sessions, sessionId, r.session)]

addMessage(st, t, sessionId, message) ==
    LET r == addMessageToSession(st.ls, t, sessionId, message)
    IN  [st EXCEPT !.ls = r.ls,
                   !.sessions = IF IsDef(r.session)
                                THEN Put(st.sessions, sessionId, Val(r.session))
                                ELSE st.sessions]

\* the onboarding effect that runs after a render of the state st
\* (st: ls, sessions, userName; cur, auth: the rendered currentSessionId, authStatus)
OnboardingEffect(st, cur, auth, t) ==
    IF /\ IsDef(cur) /\ Val(cur) \in DOMAIN st.sessions
       /\ st.sessions[Val(cur)].meta.needsOnboarding
       /\ auth = "guest"
       /\ ~Truthy(st.userName)
       /\ LET msgs == st.sessions[Val(cur)].messages
          IN  /\ ~HasAuthPrompt(msgs)
              /\ Len(msgs) = 2
              /\ msgs[2].role = "user"
    THEN LET name == Trim(st.sessions[Val(cur)].messages[2].content)
             named == [st EXCEPT !.ls = setUserName(st.ls, name),
                                 !.userName = Def(name)]
         IN  addMessage(named, t, Val(cur),
                        [Msg("model", << >>) EXCEPT !.messageType = "auth_prompt"])
    ELSE st

\* what the running build does after rendering; part_000 has no such effect
Render(st, cur, auth, t) ==
    IF ui = "ChatUI" THEN OnboardingEffect(st, cur, auth, t) ELSE st

St == [ls |-> ls, sessions |-> sessions, userName |-> userName]

Commit(st) ==
    /\ ls' = st.ls
    /\ sessions' = st.sessions
    /\ userName' = st.userName

\* the chat view is shown on the store: the useState initialisers of ChatUI,
\* then the effects of its first render
Mount(store, initialSessionId) ==
    LET st == Render([ls |-> store, sessions |-> loadSessions(store),
                      userName |-> getUserName(store)],
                     initialSessionId, getAuthStatus(store), now)
    IN  /\ mounted' = TRUE
        /\ ls' = st.ls
        /\ sessions' = st.sessions
        /\ sessionOrder' = loadOrder(store)
        /\ currentSessionId' = initialSessionId
        /\ isStreaming' = FALSE
        /\ userName' = st.userName
        /\ authStatus' = getAuthStatus(store)
        /\ audioCache' = {}
        /\ audioLoadingState' = {}

\* App.startChat(code)
StartChat(code) ==
    /\ Step
    /\ ~mounted /\ ~crashed
    /\ LET all == loadSessions(ls)
           currentId == getCurrentSessionId(ls)
           needsNewSession ==
               \/ ~IsDef(currentId)
               \/ /\ Val(currentId) \in DOMAIN all
                  /\ Len(all[Val(currentId)].messages) > 1
       IN  IF needsNewSession
           THEN LET title == IF code # "none" THEN <<LABELS(code), " chat">>
                                ELSE NewChatTitle
                    r == createNewSession(ls, now, title, code)
                IN  Mount(setCurrentSessionId(r.ls, r.session.id),
                          Def(r.session.id))
           ELSE /\ Val(currentId) \in DOMAIN all
                /\ LET session == all[Val(currentId)]
                       saved == IF session.meta.code # code
                                THEN saveSessions(ls, Put(all, session.id,
                                         [session EXCEPT !.meta.code = code]))
                                ELSE ls
                   IN  Mount(setCurrentSessionId(saved, session.id),
                             Def(session.id))
    /\ UNCHANGED <<ui, recognition, now, calls, tts, crashed, player>>

\* the Open Chat button of the header: App.handleOpenChatFromTop
OpenChatFromTop ==
    /\ Step
    /\ ~mounted /\ ~crashed
    /\ LET currentId == getCurrentSessionId(ls)
       IN  IF IsDef(currentId)
           THEN Mount(ls, currentId)
           ELSE LET r == createNewSession(ls, now, NewChatTitle, "none")
                IN  Mount(r.ls, Def(r.session.id))
    /\ UNCHANGED <<ui, recognition, now, calls, tts, crashed, player>>

\* the Close button: App.setChatVisible(false)
CloseChat ==
    /\ Step
    /\ mounted
    /\ mounted' = FALSE
    /\ sessions' = EmptyMap
    /\ sessionOrder' = << >>
    /\ currentSessionId' = Undef
    /\ isStreaming' = FALSE
    /\ userName' = Undef
    /\ authStatus' = "guest"
    /\ audioCache' = {}
    /\ audioLoadingState' = {}
    /\ calls' = Orphaned(calls)
    /\ tts' = Orphaned(tts)
    /\ player' = Unmounted(player)
    /\ UNCHANGED <<ui, recognition, now, ls, crashed>>

\* a state updater threw: the error boundary replaces the page; reqs are the
\* getTextToSpeech requests in flight, pending the sends still suspended
Crash(reqs, pending) ==
    /\ crashed' = TRUE
    /\ calls' = Orphaned(pending)
    /\ mounted' = FALSE
    /\ sessions' = EmptyMap
    /\ sessionOrder' = << >>
    /\ currentSessionId' = Undef
    /\ isStreaming' = FALSE
    /\ userName' = Undef
    /\ authStatus' = "guest"
    /\ audioCache' = {}
    /\ audioLoadingState' = {}
    /\ tts' = Orphaned(reqs)
    /\ player' = Unmounted(player)

KindOf(code) ==
    IF code = "research-web" THEN "web"
    ELSE IF code = "research" THEN "brief" ELSE "chat"

\* handleSendMessage up to its first await.  The record added to calls holds
\* what the suspended closure holds; slot (where the empty model message was
\* appended) and chunks (the chunk events received) are kept for the properties.
handleSendMessageA(prompt, file) ==
    /\ IsDef(currentSessionId)
    /\ Val(currentSessionId) \in DOMAIN sessions
    /\ LET sid == Val(currentSessionId)
           currentSession == sessions[sid]
           userMessage == [Msg("user", prompt) EXCEPT !.fileData = file]
           st1 == addMessage(St, now, sid, userMessage)
           botMessageIndex == Len(currentSession.messages)
           st2 == addMessage(st1, now, sid, Msg("model", << >>))
       IN  /\ Commit(Render(st2, currentSessionId, authStatus, now))
           /\ isStreaming' = TRUE
           /\ calls' = Append(calls,
                  [sid |-> sid, prompt |-> prompt, file |-> file,
                   botIdx |-> botMessageIndex,
                   slot |-> IF sid \in DOMAIN st2.sessions
                            THEN Len(st2.sessions[sid].messages) ELSE 0,
                   kind |-> KindOf(currentSession.meta.code),
                   full |-> << >>, chunks |-> << >>, retry |-> FALSE,
                   cached |-> botMessageIndex \in audioCache, live |-> TRUE])
    /\ UNCHANGED <<ui, recognition, now, mounted, sessionOrder, currentSessionId, authStatus,
                   audioCache, audioLoadingState, tts, crashed, player>>

\* the setSessions updater of processStream for one chunk
ChunkUpdate(ss, sid, fullResponse) ==
    IF sid \notin DOMAIN ss THEN ss
    ELSE LET n == Len(ss[sid].messages)
         IN  [ss EXCEPT ![sid].messages[n].content = fullResponse]

\* processStream: one chunk event of getChatResponse arrives
StreamChunk(i, text) ==
    /\ Step
    /\ ui = "ChatUI"
    /\ i \in DOMAIN calls
    /\ calls[i].kind = "chat"
    /\ Len(calls[i].chunks) < MaxChunks
    /\ LET c == calls[i]
           fullResponse == c.full \o text
       IN  /\ calls' = [calls EXCEPT ![i].full = fullResponse,
                                     ![i].chunks = Append(c.chunks, text)]
           /\ IF c.live
              THEN Commit(Render([St EXCEPT !.sessions =
                                     ChunkUpdate(sessions, c.sid, fullResponse)],
                                 currentSessionId, authStatus, now))
              ELSE UNCHANGED <<ls, sessions, userName>>
    /\ UNCHANGED <<ui, recognition, now, mounted, sessionOrder, currentSessionId, isStreaming,
                   authStatus, audioCache, audioLoadingState, tts, crashed, player>>

\* the final setSessions updater of handleSendMessage can run
CanMutate(ss, c) ==
    /\ c.sid \in DOMAIN ss
    /\ c.botIdx + 1 <= Len(ss[c.sid].messages)

FinalUpdate(ss, c, fullResponse, sources, suggestedReplies, finalMessageType, researchData) ==
    [ss EXCEPT ![c.sid].messages[c.botIdx + 1] =
        [@ EXCEPT !.content = fullResponse,
                  !.sources = IF Len(sources) > 0 THEN Def(sources) ELSE Undef,
                  !.suggestedReplies = Def(suggestedReplies),
                  !.messageType = finalMessageType,
                  !.researchData = researchData]]

ErrorUpdateNoPrompt(ss, c) ==
    [ss EXCEPT ![c.sid].messages[c.botIdx + 1] =
        [@ EXCEPT !.content = SorryText,
                  !.error = TRUE,
                  !.fileData = c.file]]

ErrorUpdate(ss, c) ==
    [ss EXCEPT ![c.sid].messages[c.botIdx + 1] =
        [@ EXCEPT !.content = SorryText,
                  !.error = TRUE,
                  !.promptForRetry = Def(c.prompt),
                  !.fileData = c.file]]

\* prefetchAudio(text, index) up to its await, called by a closure whose
\* audioCache had (cached) or had not the index, from a view still mounted
\* (live) or not; closure: what the caller that awaits it holds (none: the
\* call of handleSendMessage is not awaited)
prefetchAudio(cached, live, text, index, loading, reqs) ==
    IF cached \/ text = << >>
    THEN [loading |-> loading, tts |-> reqs]
    ELSE [loading |-> IF live THEN loading \cup {index} ELSE loading,
          tts |-> Append(reqs, [index |-> index, live |-> live, closure |-> Undef])]

\* the tail of handleSendMessage after the backend answered: prefetch, final
\* updater, finally
FinishA(i, fullResponse, sources, suggestedReplies, finalMessageType, researchData, shown) ==
    LET c == calls[i]
        pf == IF finalMessageType = "standard" /\ fullResponse # << >>
              THEN prefetchAudio(c.cached, c.live, fullResponse, c.botIdx,
                                 audioLoadingState, tts)
              ELSE [loading |-> audioLoadingState, tts |-> tts]
    IN  /\ IF ~c.live
           THEN /\ calls' = RemoveAt(calls, i)
                /\ tts' = pf.tts
                /\ UNCHANGED <<ls, sessions, userName, mounted, sessionOrder,
                               currentSessionId, isStreaming, authStatus,
                               audioCache, audioLoadingState, crashed, player>>
           ELSE IF CanMutate(shown, c)
           THEN /\ calls' = RemoveAt(calls, i)
                /\ Commit(Render([St EXCEPT !.sessions =
                           FinalUpdate(shown, c, fullResponse, sources,
                                       suggestedReplies, finalMessageType,
                                       researchData)],
                           currentSessionId, authStatus, now))
                /\ isStreaming' = FALSE
                /\ audioLoadingState' = pf.loading
                /\ tts' = pf.tts
                /\ UNCHANGED <<mounted, sessionOrder, currentSessionId,
                               authStatus, audioCache, crashed, player>>
           ELSE /\ Crash(pf.tts, RemoveAt(calls, i))
                /\ UNCHANGED <<ls>>

\* getChatResponse's stream ends: the complete event, then the tail
StreamEnd(i) ==
    /\ Step
    /\ ui = "ChatUI"
    /\ i \in DOMAIN calls
    /\ calls[i].kind = "chat"
    /\ FinishA(i, calls[i].full, << >>, ChatReplies,
               checkPlaceholders(calls[i].full), Undef, sessions)
    /\ UNCHANGED <<ui, recognition, now>>

\* getGroundedResponse answers: sources, one chunk, complete, then the tail,
\* all in one turn of the event loop
GroundedA(i, sources, text) ==
    /\ calls[i].kind = "web"
    /\ LET shown == IF text # << >> /\ calls[i].live
                    THEN ChunkUpdate(sessions, calls[i].sid, text)
                    ELSE sessions
       IN  FinishA(i, text, sources, GroundedReplies, "standard", Undef, shown)
    /\ UNCHANGED <<ui, recognition, now>>

\* getResearchBrief answers
BriefA(i, data) ==
    /\ calls[i].kind = "brief"
    /\ FinishA(i, BriefText, << >>, << >>, "research_brief", Def(data), sessions)
    /\ UNCHANGED <<ui, recognition, now>>

\* the backend call or the stream throws: catch, finally
FailA(i) ==
    LET c == calls[i]
    IN  /\ IF ~c.live
           THEN /\ calls' = RemoveAt(calls, i)
                /\ UNCHANGED <<ls, sessions, userName, mounted, sessionOrder,
                               currentSessionId, isStreaming, authStatus,
                               audioCache, audioLoadingState, tts, crashed, player>>
           ELSE IF CanMutate(sessions, c)
           THEN /\ calls' = RemoveAt(calls, i)
                /\ Commit(Render([St EXCEPT !.sessions = ErrorUpdate(sessions, c)],
                                 currentSessionId, authStatus, now))
                /\ isStreaming' = FALSE
                /\ UNCHANGED <<mounted, sessionOrder, currentSessionId,
                               authStatus, audioCache, audioLoadingState, tts,
                               crashed, player>>
           ELSE /\ Crash(tts, RemoveAt(calls, i))
                /\ UNCHANGED <<ls>>
        /\ UNCHANGED <<ui, recognition, now>>

-----------------------------------------------------------------------------
(* src/unnamed/part_000: the one-shot build.                               *)

\* updateSessionState: persist the session, then take every stored session
updateSessionState(st, session, live) ==
    LET r == saveSessionsAndReturn(st.ls, session)
    IN  [st EXCEPT !.ls = r.ls,
                   !.sessions = IF live THEN r.sessions ELSE st.sessions,
                   !.order = IF live THEN loadOrder(r.ls) ELSE st.order]

\* addMessageToSession followed by `if (msg) updateSessionState(msg)`
appendAndShow(st, t, sessionId, message, live) ==
    LET r == addMessageToSession(st.ls, t, sessionId, message)
    IN  IF IsDef(r.session)
        THEN updateSessionState([st EXCEPT !.ls = r.ls], Val(r.session), live)
        ELSE st

StB == [ls |-> ls, sessions |-> sessions, order |-> sessionOrder]

CommitB(st) ==
    /\ ls' = st.ls
    /\ sessions' = st.sessions
    /\ sessionOrder' = st.order

ThankYou(name) == <<"Thank you, ">> \o name \o <<"! It's a pleasure to meet you.">>

IsStaleError(m, prompt) == m.error /\ m.promptForRetry = Def(prompt)

\* the isRetry branch: drop the error messages of this prompt from the store
RemoveStaleError(st, sessionId, prompt) ==
    LET all == loadSessions(st.ls)
    IN  IF sessionId \in DOMAIN all
        THEN LET Keep(m) == ~IsStaleError(m, prompt)
             IN  updateSessionState(st,
                     [all[sessionId] EXCEPT !.messages = SelectSeq(@, Keep)], TRUE)
        ELSE st

\* handleSendMessage(messageText, isRetry) up to its first await;
\* attachedFile is the file held by the composer
handleSendMessageB(messageToSend, attachedFile, isRetry) ==
    /\ IsDef(currentSessionId)
    /\ LET sid == Val(currentSessionId)
           userMsg == [Msg("user", messageToSend) EXCEPT !.fileData = attachedFile]
           st1 == IF isRetry THEN StB ELSE appendAndShow(StB, now, sid, userMsg, TRUE)
           st2 == IF isRetry THEN RemoveStaleError(st1, sid, messageToSend) ELSE st1
       IN  IF sid \notin DOMAIN sessions
           THEN /\ CommitB(st2)
                /\ isStreaming' = FALSE
                /\ UNCHANGED <<userName, calls>>
           ELSE IF sessions[sid].meta.needsOnboarding
           THEN LET name == messageToSend
                    r1 == addMessageToSession(setUserName(st2.ls, name), now, sid,
                                              Msg("model", ThankYou(name)))
                    r2 == addMessageToSession(r1.ls, now, sid,
                              [Msg("model", <<"Auth Prompt">>)
                                  EXCEPT !.messageType = "auth_prompt"])
                IN  /\ IF IsDef(r2.session)
                       THEN CommitB(updateSessionState([st2 EXCEPT !.ls = r2.ls],
                                [Val(r2.session) EXCEPT !.meta.needsOnboarding = FALSE],
                                TRUE))
                       ELSE CommitB([st2 EXCEPT !.ls = r2.ls])
                    /\ userName' = Def(name)
                    /\ isStreaming' = FALSE
                    /\ UNCHANGED calls
           ELSE /\ CommitB(st2)
                /\ isStreaming' = TRUE
                /\ calls' = Append(calls,
                       [sid |-> sid, prompt |-> messageToSend, file |-> attachedFile,
                        botIdx |-> 0, slot |-> 0,
                        kind |-> KindOf(sessions[sid].meta.code),
                        full |-> << >>, chunks |-> << >>, retry |-> isRetry,
                        cached |-> FALSE, live |-> TRUE])
                /\ UNCHANGED userName
    /\ UNCHANGED <<ui, recognition, now, mounted, currentSessionId, authStatus, audioCache,
                   audioLoadingState, tts, crashed, player>>

\* the tail of handleSendMessage after the backend settled: append the bot or
\* error message, show it, finally
FinishB(i, message) ==
    LET c == calls[i]
    IN  /\ calls' = RemoveAt(calls, i)
        /\ CommitB(appendAndShow(StB, now, c.sid, message, c.live))
        /\ isStreaming' = IF c.live THEN FALSE ELSE isStreaming
        /\ UNCHANGED <<ui, recognition, now, mounted, currentSessionId, userName, authStatus,
                       audioCache, audioLoadingState, tts, crashed, player>>

BriefB(i, data) ==
    /\ calls[i].kind = "brief"
    /\ FinishB(i, [Msg("model", <<"Research Brief">>)
                      EXCEPT !.messageType = "research_brief",
                             !.researchData = Def(data)])

GroundedRepliesB == <<"Tell me more about that.", "What are the key takeaways?",
                      "How does this apply in Abu Dhabi?">>

GroundedB(i, sources, text) ==
    /\ calls[i].kind = "web"
    /\ FinishB(i, [Msg("model", text)
                      EXCEPT !.sources = Def(sources),
                             !.suggestedReplies = Def(GroundedRepliesB)])

NoResponseText == <<"Sorry, I couldn't generate a response.">>

\* getChatResponse of part_003 on the backend's text: raw.json says whether
\* the trimmed text parses, raw.response and raw.replies are the parsed keys
\* when it does
getChatResponseB(raw) ==
    IF raw.json /\ IsDef(raw.response)
    THEN [text |-> IF Val(raw.response) # << >> THEN Val(raw.response)
                   ELSE NoResponseText,
          messageType |-> checkPlaceholders(Val(raw.response)),
          suggestedReplies |-> IF IsDef(raw.replies) THEN Val(raw.replies) ELSE << >>]
    ELSE LET jsonText == Trim(raw.text)
         IN  [text |-> jsonText,
              messageType |-> checkPlaceholders(jsonText),
              suggestedReplies |-> << >>]

ChatB(i, raw) ==
    /\ calls[i].kind = "chat"
    /\ LET g == getChatResponseB(raw)
       IN  FinishB(i, [Msg("model", g.text)
                          EXCEPT !.messageType = g.messageType,
                                 !.suggestedReplies = Def(g.suggestedReplies)])

ErrorText(kind) ==
    IF kind = "brief"
    THEN <<"Failed to generate a research brief. The model may have returned an invalid structure.">>
    ELSE IF kind = "web" THEN <<"Failed to get a grounded response from the AI.">>
    ELSE <<"Failed to get a response from the AI. Please check your connection or try again later.">>

\* what the catch writes for a value that is no Error
UnknownErrorText == <<"An unknown error occurred.">>

\* the catch of handleSendMessage; isError: an Error was thrown (the services
\* throw Errors, the FileReader of fileToBase64 rejects with its event)
FailB(i, isError) ==
    LET errorMessage == IF isError THEN ErrorText(calls[i].kind) ELSE UnknownErrorText
    IN  FinishB(i, [Msg("model", errorMessage)
                       EXCEPT !.error = TRUE,
                              !.promptForRetry = Def(calls[i].prompt)])

-----------------------------------------------------------------------------
(* src/components/ClauseSwapWizard.tsx: the text the wizard hands over.    *)

\* how many characters other than > follow from position k
RECURSIVE RunLen(_, _)
RunLen(text, k) ==
    IF k <= Len(text) /\ text[k] # ">" THEN 1 + RunLen(text, k + 1) ELSE 0

\* the length of the match of /\<\<([^\>]+)\>\>/ that starts at position i,
\* 0 when there is none
MatchLen(text, i) ==
    IF i + 1 <= Len(text) /\ text[i] = "<" /\ text[i + 1] = "<"
    THEN LET n == RunLen(text, i + 2)
         IN  IF /\ n >= 1
                /\ i + n + 3 <= Len(text)
                /\ text[i + n + 2] = ">" /\ text[i + n + 3] = ">"
             THEN n + 4 ELSE 0
    ELSE 0

\* templateContent.match(...) with the g flag, each match without << and >>
RECURSIVE MatchedNames(_, _)
MatchedNames(text, i) ==
    IF i > Len(text) THEN << >>
    ELSE IF MatchLen(text, i) > 0
    THEN <<SubSeq(text, i + 2, i + MatchLen(text, i) - 3)>>
         \o MatchedNames(text, i + MatchLen(text, i))
    ELSE MatchedNames(text, i + 1)

\* [...new Set(matches)]: the first occurrence of each, in order
RECURSIVE Unique(_)
Unique(names) ==
    IF names = << >> THEN << >>
    ELSE LET rest == Unique(SubSeq(names, 1, Len(names) - 1))
             last == names[Len(names)]
         IN  IF \E k \in 1..Len(rest) : rest[k] = last THEN rest
             ELSE Append(rest, last)

placeholders(templateContent) == Unique(MatchedNames(templateContent, 1))

\* new RegExp(`\\<\\<${placeholder}\\>\\>`) matches at position i: the name is
\* read as a pattern, in which . stands for any character (the names drawn
\* hold no other character that a pattern reads specially)
RegexMatches(text, i, placeholder) ==
    LET n == Len(placeholder)
    IN  /\ i + n + 3 <= Len(text)
        /\ text[i] = "<" /\ text[i + 1] = "<"
        /\ \A k \in 1..n : placeholder[k] = "." \/ placeholder[k] = text[i + 1 + k]
        /\ text[i + n + 2] = ">" /\ text[i + n + 3] = ">"

\* the replacement string of String.prototype.replace: $& stands for the
\* matched text
RECURSIVE Expand(_, _)
Expand(value, matched) ==
    IF value = << >> THEN << >>
    ELSE (IF Head(value) = "$&" THEN matched ELSE <<Head(value)>>)
         \o Expand(Tail(value), matched)

\* finalized.replace(regex, value) with the g flag, from position i on
RECURSIVE ReplaceAll(_, _, _, _)
ReplaceAll(text, i, placeholder, value) ==
    IF i > Len(text) THEN << >>
    ELSE IF RegexMatches(text, i, placeholder)
    THEN Expand(value, SubSeq(text, i, i + Len(placeholder) + 3))
         \o ReplaceAll(text, i + Len(placeholder) + 4, placeholder, value)
    ELSE <<text[i]>> \o ReplaceAll(text, i + 1, placeholder, value)

NotProvided(placeholder) == <<"[">> \o placeholder \o <<"_NOT_PROVIDED]">>

\* the loop of handleFinalize over the first n placeholders
RECURSIVE FinalizeLoop(_, _, _, _)
FinalizeLoop(templateContent, names, values, n) ==
    IF n = 0 THEN templateContent
    ELSE LET finalized == FinalizeLoop(templateContent, names, values, n - 1)
             placeholder == names[n]
             value == IF values[placeholder] # << >> THEN values[placeholder]
                      ELSE NotProvided(placeholder)
         IN  ReplaceAll(finalized, 1, placeholder, value)

handleFinalize(templateContent, values) ==
    FinalizeLoop(templateContent, placeholders(templateContent), values,
                 Len(placeholders(templateContent)))

\* what the user typed into a field of the wizard
FieldValues == {<< >>, <<"v">>, <<"$&">>}

\* the fields of the wizard: the keys of its values
NamesOf(templateContent) ==
    {placeholders(templateContent)[k] : k \in 1..Len(placeholders(templateContent))}

-----------------------------------------------------------------------------
(* Handlers of the chat view, in whichever build is running.               *)

Personas == {"default", "mentor"}
AuthData ==
    {[kind |-> "guest", name |-> Undef, email |-> Def("e@x")],
     [kind |-> "google", name |-> Def(<<"G">>), email |-> Def("g@x")],
     [kind |-> "google", name |-> Undef, email |-> Undef]}
RawResponses ==
    {[json |-> TRUE, response |-> Def(<<"a">>), replies |-> Def(<<"r1">>), text |-> << >>],
     [json |-> TRUE, response |-> Def(<<"<", "<", "x", ">", ">">>), replies |-> Undef, text |-> << >>],
     [json |-> TRUE, response |-> Def(<<"a">>), replies |-> Def(<<"">>), text |-> << >>],
     [json |-> FALSE, response |-> Undef, replies |-> Undef, text |-> <<" ", "t", " ">>]}

\* Composer: the send button (disabled while a send is in flight) or Enter
SendMessage(input, file, via) ==
    /\ Step
    /\ mounted
    /\ Len(calls) < MaxCalls
    /\ via = "button" => ~isStreaming
    /\ Trim(input) # << >> \/ IsDef(file)
    /\ IF ui = "ChatUI"
       THEN handleSendMessageA(Trim(input), file)
       ELSE handleSendMessageB(Trim(input), file, FALSE)

\* a suggested reply as the text handleSendMessage is given
ReplyText(reply) == IF reply = "" THEN << >> ELSE <<reply>>

\* what the composer can hold when a button outside it is clicked
Composers == Composed \cup {[input |-> << >>, file |-> Undef],
                            [input |-> <<"z">>, file |-> Undef]}

\* part_000 only: a suggested reply of the last message is clicked while the
\* composer holds c
SuggestedReply(k, c) ==
    /\ Step
    /\ mounted /\ ui = "part_000"
    /\ Len(calls) < MaxCalls
    /\ ~isStreaming
    /\ IsDef(currentSessionId) /\ Val(currentSessionId) \in DOMAIN sessions
    /\ LET msgs == sessions[Val(currentSessionId)].messages
           last == msgs[Len(msgs)]
       IN  /\ last.role = "model"
           /\ IsDef(last.suggestedReplies)
           /\ k \in 1..Len(Val(last.suggestedReplies))
           /\ LET messageText == ReplyText(Val(last.suggestedReplies)[k])
                  messageToSend == Trim(IF messageText # << >> THEN messageText
                                        ELSE c.input)
              IN  /\ messageToSend # << >> \/ IsDef(c.file)
                  /\ handleSendMessageB(messageToSend, c.file, FALSE)

\* the retry button under the k-th message of the current session; attached:
\* the file the composer holds, which part_000 sends along
RetryShown(m) ==
    IF ui = "ChatUI"
    THEN /\ ~isStreaming /\ m.role = "model" /\ m.messageType = "standard"
         /\ m.error /\ Truthy(m.promptForRetry)
    ELSE m.error /\ Truthy(m.promptForRetry)

Retry(k, attached) ==
    /\ Step
    /\ mounted
    /\ Len(calls) < MaxCalls
    /\ IsDef(currentSessionId) /\ Val(currentSessionId) \in DOMAIN sessions
    /\ LET msgs == sessions[Val(currentSessionId)].messages
       IN  /\ k \in 1..Len(msgs)
           /\ RetryShown(msgs[k])
           /\ IF ui = "ChatUI"
              THEN handleSendMessageA(Val(msgs[k].promptForRetry), msgs[k].fileData)
              ELSE LET messageToSend == Trim(Val(msgs[k].promptForRetry))
                   IN  /\ messageToSend # << >> \/ IsDef(attached)
                       /\ handleSendMessageB(messageToSend, attached, TRUE)

\* handleNewSession / handleCreateNewSession
CreateShown(st, cur, auth, t) ==
    LET r == createNewSession(st.ls, t, NewChatTitle, "none")
        id == r.session.id
        shown == IF ui = "ChatUI"
                 THEN [ls |-> r.ls, sessions |-> Put(st.sessions, id, r.session),
                       userName |-> st.userName, order |-> <<id>> \o st.order]
                 ELSE [ls |-> r.ls, sessions |-> loadSessions(r.ls),
                       userName |-> st.userName, order |-> loadOrder(r.ls)]
        eff == Render([ls |-> shown.ls, sessions |-> shown.sessions,
                       userName |-> shown.userName], Def(id), auth, t)
    IN  [ls |-> eff.ls, sessions |-> eff.sessions, userName |-> eff.userName,
         order |-> shown.order, current |-> Def(id)]

CommitAll(x) ==
    /\ ls' = x.ls
    /\ sessions' = x.sessions
    /\ userName' = x.userName
    /\ sessionOrder' = x.order
    /\ currentSessionId' = x.current

StAll == [ls |-> ls, sessions |-> sessions, userName |-> userName, order |-> sessionOrder]

NewSession ==
    /\ Step
    /\ mounted
    /\ CommitAll(CreateShown(StAll, currentSessionId, authStatus, now))
    /\ UNCHANGED <<ui, recognition, now, mounted, isStreaming, authStatus, calls, audioCache,
                   audioLoadingState, tts, crashed, player>>

\* handleClearHistory
ClearHistory ==
    /\ Step
    /\ mounted
    /\ CommitAll(CreateShown([StAll EXCEPT !.ls = clearAllSessions(ls),
                                           !.sessions = IF ui = "ChatUI" THEN EmptyMap ELSE @,
                                           !.order = IF ui = "ChatUI" THEN << >> ELSE @],
                             Undef, authStatus, now))
    /\ UNCHANGED <<ui, recognition, now, mounted, isStreaming, authStatus, calls, audioCache,
                   audioLoadingState, tts, crashed, player>>

\* handleLogout; the menu entry is shown to an authenticated user
Logout ==
    /\ Step
    /\ mounted
    /\ authStatus = "authenticated"
    /\ authStatus' = "guest"
    /\ CommitAll(CreateShown([StAll EXCEPT !.ls = logoutUser(ls), !.userName = Undef],
                             currentSessionId, "guest", now))
    /\ UNCHANGED <<ui, recognition, now, mounted, isStreaming, calls, audioCache,
                   audioLoadingState, tts, crashed, player>>

\* handleSessionSelect: a session of the sidebar is clicked
SessionSelect(id) ==
    /\ Step
    /\ mounted
    /\ id \in DOMAIN sessions
    /\ \E k \in 1..Len(sessionOrder) : sessionOrder[k] = id
    /\ currentSessionId # Def(id)
    /\ currentSessionId' = Def(id)
    /\ Commit(Render([St EXCEPT !.ls = setCurrentSessionId(ls, id)],
                     Def(id), authStatus, now))
    /\ UNCHANGED <<ui, recognition, now, mounted, sessionOrder, isStreaming, authStatus, calls,
                   audioCache, audioLoadingState, tts, crashed, player>>

\* part_000: handleStorageChange, the window's storage listener, runs for the
\* key of the sessions or of their order
StorageEvent ==
    /\ Step
    /\ mounted /\ ui = "part_000"
    /\ sessions' = loadSessions(ls)
    /\ sessionOrder' = loadOrder(ls)
    /\ UNCHANGED <<ui, recognition, now, ls, mounted, currentSessionId, isStreaming,
                   userName, authStatus, calls, audioCache, audioLoadingState,
                   tts, crashed, player>>

\* handlePersonaChange of ChatUI.tsx: the shown session is persisted as it
\* is shown. The header of part_000 is given onPersonaChange and has no
\* control that calls it.
PersonaChange(persona) ==
    /\ Step
    /\ mounted /\ ui = "ChatUI"
    /\ IsDef(currentSessionId) /\ Val(currentSessionId) \in DOMAIN sessions
    /\ LET updatedSession ==
               [sessions[Val(currentSessionId)] EXCEPT !.meta.persona = persona]
           r == saveSessionsAndReturn(ls, updatedSession)
       IN  Commit(Render([St EXCEPT !.ls = r.ls, !.sessions = r.sessions],
                         currentSessionId, authStatus, now))
    /\ UNCHANGED <<ui, recognition, now, mounted, sessionOrder, currentSessionId, isStreaming,
                   authStatus, calls, audioCache, audioLoadingState, tts, crashed, player>>

\* `${name}` of a name that may be null (no stored name) or undefined (no name
\* in the credential)
NameText(name, google) ==
    IF IsDef(name) THEN Val(name)
    ELSE IF google THEN <<"undefined">> ELSE <<"null">>

\* ChatUI.tsx handleAuthPromptSubmit
handleAuthPromptSubmitA(data) ==
    LET google == data.kind = "google"
        name == IF google THEN data.name ELSE getUserName(ls)
        email == data.email
        s1 == IF google THEN setAuthStatus(ls, "authenticated") ELSE ls
        s2 == IF Truthy(name) THEN setUserName(s1, Val(name)) ELSE s1
        s3 == IF IsDef(email) THEN setUserContactInfo(s2, Val(email)) ELSE s2
        auth == IF google THEN "authenticated" ELSE authStatus
        NotPrompt(m) == m.messageType # "auth_prompt"
        sid == Val(currentSessionId)
        filtered == IF sid \in DOMAIN sessions
                    THEN [sessions EXCEPT ![sid].messages = SelectSeq(@, NotPrompt)]
                    ELSE sessions
        st1 == addMessage([ls |-> s3, sessions |-> filtered, userName |-> name],
                          now, sid,
                          Msg("model", <<"Thank you, ">> \o NameText(name, google)
                                       \o <<"! It's a pleasure to meet you. How can I help you today?">>))
    IN  /\ authStatus' = auth
        /\ Commit(Render(st1, currentSessionId, auth, now))
        /\ UNCHANGED <<sessionOrder>>

\* part_000 finalizeAuthentication(status, newName)
finalizeAuthentication(store, status, newName) ==
    LET sid == Val(currentSessionId)
        all == loadSessions(store)
        confirmationText ==
            IF status = "authenticated"
            THEN <<"Great, ">> \o newName
                   \o <<"! You're all signed in. Your chats will now be saved to your profile.">>
            ELSE <<"Okay, you're continuing as a guest. Your chat history will be saved on this browser only.">>
        r1 == addMessageToSession(store, now, sid, Msg("model", confirmationText))
    IN  IF sid \in DOMAIN all
        THEN appendAndShow([StB EXCEPT !.ls = r1.ls], now, sid,
                           Msg("model", <<"How can I help you today?">>), TRUE)
        ELSE [StB EXCEPT !.ls = store]

\* part_000 handleGoogleSignInSuccess / handleGuestSubmit
handleAuthPromptSubmitB(data) ==
    IF data.kind = "google" /\ Truthy(data.name)
    THEN /\ userName' = data.name
         /\ authStatus' = "authenticated"
         /\ CommitB(finalizeAuthentication(
                setAuthStatus(setUserName(ls, Val(data.name)), "authenticated"),
                "authenticated", Val(data.name)))
    ELSE /\ UNCHANGED userName
         /\ authStatus' = "guest"
         /\ CommitB(finalizeAuthentication(
                setAuthStatus(IF data.kind = "guest"
                              THEN setUserContactInfo(ls, Val(data.email)) ELSE ls,
                              "guest"),
                "guest", << >>))

\* the AuthPrompt rendered for an auth_prompt message is submitted
AuthPromptSubmit(data) ==
    /\ Step
    /\ mounted
    /\ IsDef(currentSessionId) /\ Val(currentSessionId) \in DOMAIN sessions
    /\ HasAuthPrompt(sessions[Val(currentSessionId)].messages)
    /\ IF ui = "ChatUI" THEN handleAuthPromptSubmitA(data)
                        ELSE handleAuthPromptSubmitB(data)
    /\ UNCHANGED <<ui, recognition, now, mounted, currentSessionId, isStreaming, calls,
                   audioCache, audioLoadingState, tts, crashed, player>>

\* ChatUI.tsx handleFinalizeWizard(finalizedContent)
handleFinalizeWizardA(finalizedContent) ==
    LET sid == Val(currentSessionId)
        st1 == addMessage(St, now, sid, Msg("user", <<"Finalized Document">>))
        st2 == addMessage(st1, now, sid, Msg("model", finalizedContent))
    IN  Commit(Render(st2, currentSessionId, authStatus, now))

\* Array.prototype.findIndex(m => m.ts === messageTs), 0 for -1
FindByTs(msgs, messageTs) ==
    IF \E k \in 1..Len(msgs) : msgs[k].ts = messageTs
    THEN CHOOSE k \in 1..Len(msgs) :
            /\ msgs[k].ts = messageTs
            /\ \A j \in 1..(k - 1) : msgs[j].ts # messageTs
    ELSE 0

\* part_000 handleFinalizeWizard(messageTs, finalizedContent)
handleFinalizeWizardB(messageTs, finalizedContent) ==
    LET sid == Val(currentSessionId)
        messageIndex == FindByTs(sessions[sid].messages, messageTs)
        newSessions ==
            IF messageIndex # 0
            THEN [sessions EXCEPT ![sid].messages[messageIndex] =
                     [@ EXCEPT !.content = finalizedContent,
                               !.messageType = "standard"]]
            ELSE sessions
    IN  /\ sessions' = newSessions
        /\ ls' = saveSessions(ls, newSessions)
        /\ UNCHANGED userName

\* the Finalize Document button of the wizard rendered for the k-th message
\* of the current session, its fields holding values
FinalizeWizard(k, values) ==
    /\ Step
    /\ mounted
    /\ IsDef(currentSessionId) /\ Val(currentSessionId) \in DOMAIN sessions
    /\ LET msgs == sessions[Val(currentSessionId)].messages
       IN  /\ k \in 1..Len(msgs)
           /\ msgs[k].messageType = "wizard"
           /\ DOMAIN values = NamesOf(msgs[k].content)
           /\ IF ui = "ChatUI"
              THEN handleFinalizeWizardA(handleFinalize(msgs[k].content, values))
              ELSE handleFinalizeWizardB(msgs[k].ts,
                                         handleFinalize(msgs[k].content, values))
    /\ UNCHANGED <<ui, recognition, now, mounted, sessionOrder, currentSessionId, isStreaming,
                   authStatus, calls, audioCache, audioLoadingState, tts, crashed,
                   player>>

\* playAudio(b64) of handlePlayAudio(text, index); speaking: the
\* speakingMessageIndex of the render the handler belongs to; decodes:
\* decodeAudioData returns (it throws on audio of an odd number of bytes)
playAudio(p, index, speaking, decodes) ==
    IF decodes
    THEN [p EXCEPT !.speaking = Def(index),
                   !.sources = Append(@, [index |-> index,
                                          seen |-> speaking,
                                          state |-> "playing",
                                          live |-> TRUE]),
                   !.ref = Def(Len(p.sources) + 1)]
    ELSE [p EXCEPT !.speaking = Undef]

\* handlePlayAudio after await prefetchAudio(text, index): audioCache.get(index)
\* on the map of the render the handler belongs to, then playAudio
AfterPrefetch(p, req) ==
    IF req.live /\ IsDef(req.closure) /\ req.index \in Val(req.closure).audioCache
    THEN {playAudio(p, req.index, Val(req.closure).speaking, b) : b \in BOOLEAN}
    ELSE {p}

\* getTextToSpeech of a prefetch resolves: the audio is cached, finally
Resolved(j) ==
    /\ j \in DOMAIN tts
    /\ tts' = RemoveAt(tts, j)
    /\ audioCache' = IF tts[j].live THEN audioCache \cup {tts[j].index} ELSE audioCache
    /\ audioLoadingState' = IF tts[j].live THEN audioLoadingState \ {tts[j].index}
                            ELSE audioLoadingState
    /\ player' \in AfterPrefetch(player, tts[j])
    /\ UNCHANGED <<ui, recognition, now, ls, mounted, sessions, sessionOrder, currentSessionId,
                   isStreaming, userName, authStatus, calls, crashed>>

TtsResolve(j) == Step /\ Resolved(j)

\* getTextToSpeech of a prefetch throws: logged, finally
Rejected(j) ==
    /\ j \in DOMAIN tts
    /\ tts' = RemoveAt(tts, j)
    /\ audioLoadingState' = IF tts[j].live THEN audioLoadingState \ {tts[j].index}
                            ELSE audioLoadingState
    /\ player' \in AfterPrefetch(player, tts[j])
    /\ UNCHANGED <<ui, recognition, now, ls, mounted, sessions, sessionOrder, currentSessionId,
                   isStreaming, userName, authStatus, calls, audioCache, crashed>>

TtsReject(j) == Step /\ Rejected(j)

\* ChatUI.tsx handlePlayAudio(text, index); decodes: decodeAudioData returns
\* (it throws on audio of an odd number of bytes)
handlePlayAudio(text, index, decodes) ==
    IF player.speaking = Def(index)
    THEN /\ player' = [stop(player) EXCEPT !.speaking = Undef]
         /\ UNCHANGED <<audioLoadingState, tts>>
    ELSE LET stopped == stop(player)
         IN  IF index \in audioCache
             THEN /\ player' = playAudio(stopped, index, player.speaking, decodes)
                  /\ UNCHANGED <<audioLoadingState, tts>>
             ELSE LET pf == prefetchAudio(FALSE, TRUE, text, index,
                                         audioLoadingState, tts)
                      held == [audioCache |-> audioCache,
                               speaking |-> player.speaking]
                  IN  /\ player' = stopped
                      /\ audioLoadingState' = pf.loading
                      /\ tts' = IF pf.tts = tts THEN tts
                                ELSE [pf.tts EXCEPT ![Len(pf.tts)].closure = Def(held)]

\* part_000 handleSpeakMessage(content, ts); late: see cancel
handleSpeakMessage(ts, late) ==
    /\ player' = IF player.speaking = Def(ts)
                 THEN [cancel(player, late) EXCEPT !.speaking = Undef]
                 ELSE [cancel(player, late) EXCEPT !.queue = <<Utterance(ts)>>,
                                                   !.speaking = Def(ts)]
    /\ UNCHANGED <<audioLoadingState, tts>>

\* the read-aloud button under the k-th message of the current session
PlayAudio(k, b) ==
    /\ Step
    /\ mounted
    /\ IsDef(currentSessionId) /\ Val(currentSessionId) \in DOMAIN sessions
    /\ LET msgs == sessions[Val(currentSessionId)].messages
       IN  /\ k \in 1..Len(msgs)
           /\ msgs[k].role = "model" /\ msgs[k].messageType = "standard"
           /\ IF ui = "ChatUI"
              THEN /\ ~isStreaming
                   /\ (k - 1) \notin audioLoadingState
                   /\ handlePlayAudio(msgs[k].content, k - 1, b)
              ELSE /\ ~msgs[k].error
                   /\ handleSpeakMessage(msgs[k].ts, b)
    /\ UNCHANGED <<ui, recognition, now, ls, mounted, sessions, sessionOrder, currentSessionId,
                   isStreaming, userName, authStatus, calls, audioCache, crashed>>

\* the ended event of an AudioBufferSourceNode (it played to its end, or it
\* was stopped): source.onended
SourceEnded(s) ==
    /\ Step
    /\ s \in DOMAIN player.sources
    /\ player.sources[s].state \in {"playing", "stopped"}
    /\ LET src == player.sources[s]
       IN  player' = [player EXCEPT
                         !.sources[s].state = "done",
                         !.speaking = IF src.live /\ src.seen = Def(src.index)
                                      THEN Undef ELSE @]
    /\ UNCHANGED <<ui, recognition, now, ls, mounted, sessions, sessionOrder, currentSessionId,
                   isStreaming, userName, authStatus, calls, audioCache,
                   audioLoadingState, tts, crashed>>

\* the utterance being spoken ends: utterance.onend
UtteranceEnd ==
    /\ Step
    /\ player.queue # << >>
    /\ player' = [player EXCEPT !.queue = Tail(@),
                                !.speaking = IF player.queue[1].live THEN Undef ELSE @]
    /\ UNCHANGED <<ui, recognition, now, ls, mounted, sessions, sessionOrder, currentSessionId,
                   isStreaming, userName, authStatus, calls, audioCache,
                   audioLoadingState, tts, crashed>>

\* the end event of a cancelled utterance is delivered: utterance.onend
CancelledEnd ==
    /\ Step
    /\ player.ends # << >>
    /\ player' = [player EXCEPT !.ends = Tail(@),
                                !.speaking = IF player.ends[1].live THEN Undef ELSE @]
    /\ UNCHANGED <<ui, recognition, now, ls, mounted, sessions, sessionOrder, currentSessionId,
                   isStreaming, userName, authStatus, calls, audioCache,
                   audioLoadingState, tts, crashed>>

\* the backend of a pending send answers
BriefAnswer(i, data) ==
    /\ Step
    /\ i \in DOMAIN calls
    /\ IF ui = "ChatUI" THEN BriefA(i, data) ELSE BriefB(i, data)

GroundedAnswer(i, sources, text) ==
    /\ Step
    /\ i \in DOMAIN calls
    /\ IF ui = "ChatUI" THEN GroundedA(i, sources, text) ELSE GroundedB(i, sources, text)

ChatAnswer(i, raw) ==
    /\ Step
    /\ i \in DOMAIN calls
    /\ ui = "part_000"
    /\ ChatB(i, raw)

\* the backend of a pending send fails
Fail(i) ==
    /\ Step
    /\ i \in DOMAIN calls
    /\ IF ui = "ChatUI" THEN FailA(i) ELSE FailB(i, TRUE)

\* part_000: the FileReader of a chat send with a file fails, at the await of
\* fileToBase64 that comes before the request
ReaderFails(i) ==
    /\ Step
    /\ i \in DOMAIN calls
    /\ ui = "part_000"
    /\ calls[i].kind = "chat"
    /\ IsDef(calls[i].file)
    /\ FailB(i, FALSE)

Next ==
    \/ Tick
    \/ \E code \in Codes : StartChat(code)
    \/ OpenChatFromTop
    \/ CloseChat
    \/ \E c \in Composed, via \in {"button", "enter"} :
          SendMessage(c.input, c.file, via)
    \/ \E k \in 1..3, c \in Composers : SuggestedReply(k, c)
    \/ \E k \in 1..(2 * MaxSteps), attached \in {Undef, Def("doc.pdf")} :
          Retry(k, attached)
    \/ NewSession
    \/ ClearHistory
    \/ Logout
    \/ \E id \in 0..MaxClock : SessionSelect(id)
    \/ StorageEvent
    \/ \E persona \in Personas : PersonaChange(persona)
    \/ \E data \in AuthData : AuthPromptSubmit(data)
    \/ \E k \in 1..(2 * MaxSteps), values \in [{<<"x">>} -> FieldValues] :
          FinalizeWizard(k, values)
    \/ \E i \in 1..MaxCalls, text \in ChunkTexts : StreamChunk(i, text)
    \/ \E i \in 1..MaxCalls : StreamEnd(i)
    \/ \E i \in 1..MaxCalls, data \in Bundles : BriefAnswer(i, data)
    \/ \E i \in 1..MaxCalls, g \in Grounded : GroundedAnswer(i, g.sources, g.text)
    \/ \E i \in 1..MaxCalls, raw \in RawResponses : ChatAnswer(i, raw)
    \/ \E i \in 1..MaxCalls : Fail(i)
    \/ \E i \in 1..MaxCalls : ReaderFails(i)
    \/ \E j \in 1..MaxSteps : TtsResolve(j)
    \/ \E j \in 1..MaxSteps : TtsReject(j)
    \/ \E k \in 1..(2 * MaxSteps), b \in BOOLEAN : PlayAudio(k, b)
    \/ \E s \in 1..MaxSteps : SourceEnded(s)
    \/ UtteranceEnd
    \/ CancelledEnd

Spec == Init /\ [][Next]_vars

-----------------------------------------------------------------------------
(* The streaming build (ChatUI.tsx, the one that prefetches audio) from the *)
(* moment its view is on screen, at any time of the clock: the states of   *)
(* Spec after startChat(code), taken as the start.  A synthesis request    *)
(* settles whenever the backend answers, between any two handlers and      *)
(* after the last one.  Retry, Logout and the auth prompt are not listed:  *)
(* from these starts they need more than MaxSteps handlers before they can *)
(* run.                                                                    *)

InitOpened ==
    /\ \E t \in 0..MaxClock, code \in Codes : Page(t, TRUE, code)
    /\ ui = "ChatUI"
    /\ arg = << >>
    /\ res = Undef

Settle(j) ==
    /\ Resolved(j) \/ Rejected(j)
    /\ UNCHANGED <<steps, arg, res>>

NextOpened ==
    \/ Tick
    \/ \E code \in Codes : StartChat(code)
    \/ OpenChatFromTop
    \/ CloseChat
    \/ \E c \in Composed, via \in {"button", "enter"} :
          SendMessage(c.input, c.file, via)
    \/ NewSession
    \/ ClearHistory
    \/ \E id \in 0..MaxClock : SessionSelect(id)
    \/ \E persona \in Personas : PersonaChange(persona)
    \/ \E k \in 1..(2 * MaxSteps), values \in [{<<"x">>} -> FieldValues] :
          FinalizeWizard(k, values)
    \/ \E i \in 1..MaxCalls, text \in ChunkTexts : StreamChunk(i, text)
    \/ \E i \in 1..MaxCalls : StreamEnd(i)
    \/ \E i \in 1..MaxCalls, data \in Bundles : BriefAnswer(i, data)
    \/ \E i \in 1..MaxCalls, g \in Grounded : GroundedAnswer(i, g.sources, g.text)
    \/ \E i \in 1..MaxCalls : Fail(i)
    \/ \E k \in 1..(2 * MaxSteps), b \in BOOLEAN : PlayAudio(k, b)
    \/ \E s \in 1..MaxSteps : SourceEnded(s)
    \/ \E j \in 1..MaxSteps : Settle(j)

SpecOpened == InitOpened /\ [][NextOpened]_vars

-----------------------------------------------------------------------------
(* The response classifier applied to a text, outside any chat.            *)

\* the sequences over S of length at most n
SeqsUpTo(S, n) == UNION {[1..k -> S] : k \in 0..n}

ClassifiedTexts == SeqsUpTo({"<", ">", "x"}, MaxText)

InitPlaceholders ==
    /\ ChatInit
    /\ arg \in ClassifiedTexts
    /\ res = Undef

Classify ==
    /\ res = Undef
    /\ res' = Def(checkPlaceholders(arg))
    /\ UNCHANGED arg
    /\ UNCHANGED chatVars

SpecPlaceholders == InitPlaceholders /\ [][Classify]_vars

-----------------------------------------------------------------------------
(* The wizard applied to a template, outside any chat.                     *)

\* the templates drawn: up to MaxParts parts, each a placeholder or plain text
TemplateParts == {<<"<", "<", "a", ">", ">">>, <<"<", "<", ".", ">", ">">>, <<"t">>}
Templates == {Concat(parts) : parts \in SeqsUpTo(TemplateParts, MaxParts)}

InitWizard ==
    /\ ChatInit
    /\ \E t \in Templates : \E v \in [NamesOf(t) -> FieldValues] :
          arg = [templateContent |-> t, values |-> v]
    /\ res = Undef

Finalize ==
    /\ res = Undef
    /\ res' = Def(handleFinalize(arg.templateContent, arg.values))
    /\ UNCHANGED arg
    /\ UNCHANGED chatVars

SpecWizard == InitWizard /\ [][Finalize]_vars

-----------------------------------------------------------------------------
(* addMessage applied to a session id and a message, outside any chat.     *)
(* Here arg is the pair passed and res is what addMessageToSession returns. *)

AppendedMessages ==
    {[Msg(role, content) EXCEPT !.messageType = type] :
        role \in {"user", "model"},
        content \in SeqsUpTo({"a", "b"}, MaxContent),
        type \in {"undefined", "auth_prompt"}}

InitAppend ==
    /\ ChatInit
    /\ arg \in [sessionId : 0..(MaxClock + 1), message : AppendedMessages]
    /\ res = Undef

AppendMessage ==
    /\ res = Undef
    /\ res' = Def(addMessageToSession(ls, now, arg.sessionId, arg.message).session)
    /\ Commit(addMessage(St, now, arg.sessionId, arg.message))
    /\ UNCHANGED arg
    /\ UNCHANGED <<ui, recognition, now, mounted, sessionOrder, currentSessionId, isStreaming,
                   authStatus, calls, audioCache, audioLoadingState, tts, crashed,
                   player, steps>>

SpecAppend == InitAppend /\ [][AppendMessage]_vars

-----------------------------------------------------------------------------
(* The session service creating sessions and clearing the store, outside   *)
(* any chat. Here arg is the store before the last clear and res counts    *)
(* the clears since the last creation.                                     *)

InitClear ==
    /\ ChatInit
    /\ arg = ls
    /\ res = 0

\* createNewSession at the time t of a clock that does not run backwards
CreateSession(t, code) ==
    /\ \A id \in DOMAIN loadSessions(ls) : id <= t
    /\ Len(loadOrder(ls)) < MaxCreated
    /\ ls' = createNewSession(ls, t, NewChatTitle, code).ls
    /\ res' = 0
    /\ UNCHANGED arg
    /\ UNCHANGED <<ui, recognition, now, mounted, sessions, sessionOrder, currentSessionId,
                   isStreaming, userName, authStatus, calls, audioCache,
                   audioLoadingState, tts, crashed, player, steps>>

ClearAll ==
    /\ res < MaxClears
    /\ ls' = clearAllSessions(ls)
    /\ arg' = ls
    /\ res' = res + 1
    /\ UNCHANGED <<ui, recognition, now, mounted, sessions, sessionOrder, currentSessionId,
                   isStreaming, userName, authStatus, calls, audioCache,
                   audioLoadingState, tts, crashed, player, steps>>

\* userService.setUserName / logoutUser between two calls of the service
NameStored(name) ==
    /\ ls' = IF IsDef(name) THEN setUserName(ls, Val(name)) ELSE logoutUser(ls)
    /\ ls' # ls
    /\ UNCHANGED <<arg, res>>
    /\ UNCHANGED <<ui, recognition, now, mounted, sessions, sessionOrder, currentSessionId,
                   isStreaming, userName, authStatus, calls, audioCache,
                   audioLoadingState, tts, crashed, player, steps>>

NextClear ==
    \/ \E t \in 0..MaxClock, code \in Codes : CreateSession(t, code)
    \/ ClearAll
    \/ \E name \in {Undef, Def(<<"N">>), Def(<< >>)} : NameStored(name)

SpecClear == InitClear /\ [][NextClear]_vars

-----------------------------------------------------------------------------
(* src/components/LiveChatUI.tsx: the visible list of the live view. Here  *)
(* arg is the list of turns last notified and res is liveMessages.         *)

Transcript(turn) == [type |-> "transcript", turn |-> turn]
System(text) == [type |-> "system", text |-> text]

\* the key of a message in uniqueMessageMap
KeyOf(m) ==
    IF m.type = "transcript" THEN <<m.turn.speaker, ":">> \o m.turn.text
    ELSE m.text

\* Map.prototype.set on the entries in insertion order: a key already there
\* keeps its place and takes the new value
MapSetAppends(entries, key, value) == Append(entries, [key |-> key, value |-> value])

MapSet(entries, key, value) ==
    IF \E k \in 1..Len(entries) : entries[k].key = key
    THEN [k \in 1..Len(entries) |->
             IF entries[k].key = key THEN [key |-> key, value |-> value]
             ELSE entries[k]]
    ELSE Append(entries, [key |-> key, value |-> value])

\* the loop over the first n of allMessages
RECURSIVE UniqueMessageMap(_, _)
UniqueMessageMap(allMessages, n) ==
    IF n = 0 THEN << >>
    ELSE MapSet(UniqueMessageMap(allMessages, n - 1),
                KeyOf(allMessages[n]), allMessages[n])

\* the updater of handleTranscriptionUpdate(turns) on currentMessages
handleTranscriptionUpdate(turns, currentMessages) ==
    LET newTranscriptMessages == [k \in 1..Len(turns) |-> Transcript(turns[k])]
        IsSystem(m) == m.type = "system"
        systemMessages == SelectSeq(currentMessages, IsSystem)
        allMessages == newTranscriptMessages \o systemMessages
        map == UniqueMessageMap(allMessages, Len(allMessages))
    IN  [k \in 1..Len(map) |-> map[k].value]

Turns == {[speaker |-> sp, text |-> tx] :
             sp \in {"user", "model"}, tx \in {<<"a">>, <<"model", ":", "a">>}}
SystemTexts == {<<"Summarizing conversation...">>, <<"Summary: ", "s">>,
                <<"Failed to generate summary.">>}

InitLive ==
    /\ ChatInit
    /\ arg = << >>
    /\ res = << >>

\* the live service notifies the turns so far
TranscriptionUpdate(turns) ==
    /\ arg' = turns
    /\ res' = handleTranscriptionUpdate(turns, res)
    /\ UNCHANGED chatVars

\* handleToolCall appends a system message
SystemMessage(text) ==
    /\ Len(res) < MaxLive
    /\ res' = Append(res, System(text))
    /\ UNCHANGED arg
    /\ UNCHANGED chatVars

NextLive ==
    \/ \E turns \in SeqsUpTo(Turns, MaxTurns) : TranscriptionUpdate(turns)
    \/ \E text \in SystemTexts : SystemMessage(text)

SpecLive == InitLive /\ [][NextLive]_vars

-----------------------------------------------------------------------------
(* src/unnamed/part_004: the live service, event by event. Every call of   *)
(* connect that reaches live.connect leaves a connection: its promise, its *)
(* channel and the variables of its closure. The variables of the module   *)
(* are shared by all connections and sessionPromise is the promise of the  *)
(* last one. In the specification of the service alone, arg holds the      *)
(* service and res the last call and the disconnects completed in a row.   *)

\* `let nextStartTime ... const transcriptionHistory` of a connect call
NewConnection ==
    [currentInputTranscription |-> << >>, currentOutputTranscription |-> << >>,
     transcriptionHistory |-> << >>, sources |-> << >>]

\* what a connect call leaves once live.connect was called. promise:
\* "pending", "failing" (the channel reported an error before it opened),
\* "open" (resolved, the channel is open), "closed" (resolved, the channel
\* is closed or being closed), "rejected"; closeEvent: the channel owes its
\* close event; awaiting: the disconnect() calls that await the promise;
\* micAsked: onopen awaits getUserMedia; sources: the inbound audio sources
\* started and not ended, each with the state of its audio context, or
\* "current" for the context outputAudioContext holds; handler: the
\* liveMessages the handleToolCall given to connect was built with; view:
\* the view that called connect is still on screen
Connection(handler, view) ==
    NewConnection @@
    [promise |-> "pending", closeEvent |-> FALSE, awaiting |-> 0,
     micAsked |-> FALSE, handler |-> handler, view |-> view]

\* `let inputAudioContext ... let sessionPromise` before any connect
NoChannel ==
    [connections |-> << >>, microphoneStream |-> "undefined",
     scriptProcessor |-> "undefined", inputAudioContext |-> "undefined",
     outputAudioContext |-> "undefined"]

\* the live service before any connect; liveStreams: the microphone streams
\* with a live track; disconnected: a disconnect completed and connect was
\* not called since; threw: a disconnect() call ended with an exception;
\* notified: the list the last onmessage gave to onTranscriptionUpdate;
\* toolCall: the message of that onmessage carried a toolCall
NoService ==
    NoChannel @@
    [liveStreams |-> 0, disconnected |-> FALSE, threw |-> FALSE,
     notified |-> Undef, toolCall |-> FALSE, events |-> 0]

\* the variable sessionPromise, as the state of the promise it holds
sessionPromise(svc) ==
    IF svc.connections = << >> THEN "undefined"
    ELSE svc.connections[Len(svc.connections)].promise

\* the state of the audio context a source plays on
ContextOf(source, output) == IF source = "current" THEN output ELSE source

\* a connection nothing can come from any more
Inert(c, output) ==
    /\ c.promise \in {"closed", "rejected"}
    /\ ~c.closeEvent
    /\ c.awaiting = 0
    /\ ~c.micAsked
    /\ \A i \in DOMAIN c.sources : ContextOf(c.sources[i], output) = "closed"

\* the connections something can still come from
Alive(svc) ==
    LET Kept(c) == ~Inert(c, svc.outputAudioContext)
    IN  SelectSeq(svc.connections, Kept)

\* outputAudioContext is assigned a new context: the sources started on the
\* old one stay on it
Superseded(c, output) ==
    [c EXCEPT !.sources = [i \in DOMAIN @ |-> ContextOf(@[i], output)]]

\* where a connect call can stop before live.connect: getAI throws, the
\* first or the second AudioContext cannot be built; or it does not stop
ConnectOutcomes == {"no_ai", "no_input_audio", "no_output_audio", "started"}

\* connect(...) up to its return: live.connect is not awaited
connect(svc, outcome, handler, view) ==
    LET called == [svc EXCEPT !.disconnected = FALSE]
    IN  IF outcome \in {"no_ai", "no_input_audio"} THEN called
        ELSE IF outcome = "no_output_audio"
        THEN [called EXCEPT !.inputAudioContext = "running"]
        ELSE LET earlier == Alive(svc)
             IN  [called EXCEPT
                     !.inputAudioContext = "running",
                     !.outputAudioContext = "running",
                     !.connections =
                         Append([k \in DOMAIN earlier |->
                                    Superseded(earlier[k], svc.outputAudioContext)],
                                Connection(handler, view)),
                     !.notified = Undef,
                     !.toolCall = FALSE]

\* `const session = await sessionPromise; session.close();` once the promise
\* of connection c is settled: the await throws on a rejected promise; the
\* close of an open channel is followed by its close event
AwaitAndClose(c) ==
    IF c.promise = "rejected" THEN [c |-> c, threw |-> TRUE]
    ELSE [c |-> [c EXCEPT !.promise = "closed",
                          !.closeEvent = @ \/ c.promise = "open"],
          threw |-> FALSE]

\* try { ... } catch (e) { }
CloseSessionUncaught(c) == AwaitAndClose(c)

CloseSession(c) == [AwaitAndClose(c) EXCEPT !.threw = FALSE]

\* if (ctx?.state !== 'closed') ctx?.close(): close() returns a promise, the
\* state reads 'closed' only once the closing is done
CloseContext(ctx) == IF ctx \in {"undefined", "closed"} THEN ctx ELSE "closing"

\* disconnect() from the moment the promise it awaits is settled to its end;
\* k: the connection whose promise sessionPromise held when disconnect was
\* called, 0 when it held none. The session closed is the one of that
\* promise, the rest acts on what the variables of the module hold now.
disconnect(svc, k) ==
    LET closed == IF k = 0 THEN [threw |-> FALSE]
                  ELSE CloseSession(svc.connections[k])
        s1 == IF k = 0 THEN svc ELSE [svc EXCEPT !.connections[k] = closed.c]
    IN  IF closed.threw THEN [s1 EXCEPT !.threw = TRUE]
        ELSE [s1 EXCEPT
                 !.microphoneStream = IF @ # "undefined" THEN "stopped" ELSE @,
                 !.liveStreams = IF s1.microphoneStream = "live" THEN @ - 1 ELSE @,
                 !.scriptProcessor = IF @ # "undefined" THEN "disconnected" ELSE @,
                 !.inputAudioContext = CloseContext(@),
                 !.outputAudioContext = CloseContext(@),
                 !.disconnected = TRUE]

\* disconnect() is called: `if (sessionPromise)`, then the await, which
\* lasts as long as the promise is pending
disconnectCalled(svc) ==
    LET k == Len(svc.connections)
    IN  IF sessionPromise(svc) \in {"pending", "failing"}
        THEN [svc EXCEPT !.connections[k].awaiting = @ + 1]
        ELSE disconnect(svc, k)

RECURSIVE Resumed(_, _, _)
Resumed(svc, k, n) ==
    IF n = 0 THEN svc ELSE Resumed(disconnect(svc, k), k, n - 1)

\* the promise of connection k settles: every disconnect() that awaits it
\* goes on, in the order of the calls
promiseSettled(svc, k) ==
    [Resumed(svc, k, svc.connections[k].awaiting)
        EXCEPT !.connections[k].awaiting = 0]

\* the channel of connection k opens: onopen up to its await, then the
\* promise of live.connect resolves
onopen(svc, k) ==
    promiseSettled([svc EXCEPT !.connections[k].promise = "open",
                               !.connections[k].micAsked = TRUE], k)

\* live.connect of connection k rejects: nothing awaits it but disconnect
connectRejected(svc, k) ==
    promiseSettled([svc EXCEPT !.connections[k].promise = "rejected"], k)

\* getUserMedia resolves in the onopen of connection k: the rest of onopen,
\* on the inputAudioContext of this moment; builds: createMediaStreamSource
\* and createScriptProcessor succeed (a browser may refuse them on a context
\* that is being closed). A stream that was live and is replaced stays live.
microphoneGranted(svc, k, builds) ==
    [svc EXCEPT !.connections[k].micAsked = FALSE,
                !.microphoneStream = "live",
                !.liveStreams = @ + 1,
                !.scriptProcessor = IF builds THEN "connected" ELSE @]

\* getUserMedia rejects: onopen ends there
microphoneDenied(svc, k) == [svc EXCEPT !.connections[k].micAsked = FALSE]

\* onerror of connection k, open or still opening: disconnect() is called. A
\* channel that fails while opening will not open any more and its close
\* event follows.
onerror(svc, k) ==
    LET opening == svc.connections[k].promise = "pending"
    IN  disconnectCalled(
            [svc EXCEPT !.connections[k].promise = IF opening THEN "failing" ELSE @,
                        !.connections[k].closeEvent = @ \/ opening])

\* the close event of the channel of connection k: after session.close(),
\* after a failure while it was opening, or from the server
onclose(svc, k) ==
    [svc EXCEPT !.connections[k].closeEvent = FALSE,
                !.connections[k].promise = IF @ = "open" THEN "closed" ELSE @]

Event == arg.events < MaxEvents
Counted(svc) == [svc EXCEPT !.events = @ + 1]

\* the connections of the service
Conns == 1..MaxConnects
Has(k) == k \in DOMAIN arg.connections

InitChannel ==
    /\ ChatInit
    /\ arg = NoService
    /\ res = [last |-> "none", disconnects |-> 0]

\* connect is called
Connect(outcome) ==
    /\ Event
    /\ outcome = "started" => Len(Alive(arg)) < MaxConnects
    /\ arg' = Counted(connect(arg, outcome, << >>, FALSE))
    /\ res' = [last |-> "connect", disconnects |-> 0]
    /\ UNCHANGED chatVars

ChannelOpens(k) ==
    /\ Event /\ Has(k)
    /\ arg.connections[k].promise = "pending"
    /\ arg' = Counted(onopen(arg, k))
    /\ res' = [last |-> "onopen", disconnects |-> 0]
    /\ UNCHANGED chatVars

ChannelRejects(k) ==
    /\ Event /\ Has(k)
    /\ arg.connections[k].promise = "pending"
    /\ arg' = Counted(connectRejected(arg, k))
    /\ res' = [last |-> "rejected", disconnects |-> 0]
    /\ UNCHANGED chatVars

MicrophoneAnswers(k, granted, builds) ==
    /\ Event /\ Has(k)
    /\ arg.connections[k].micAsked
    /\ granted /\ arg.inputAudioContext = "running" => builds
    /\ ~granted => builds
    /\ arg' = Counted(IF granted THEN microphoneGranted(arg, k, builds)
                      ELSE microphoneDenied(arg, k))
    /\ res' = [last |-> "getUserMedia", disconnects |-> 0]
    /\ UNCHANGED chatVars

ChannelCloses(k) ==
    /\ Event /\ Has(k)
    /\ arg.connections[k].closeEvent \/ arg.connections[k].promise = "open"
    /\ arg' = Counted(onclose(arg, k))
    /\ res' = [last |-> "onclose", disconnects |-> 0]
    /\ UNCHANGED chatVars

\* disconnect is called: by handleDisconnect, by the unmount effect of
\* LiveChatUI or by onerror
Disconnect ==
    /\ Event
    /\ arg' = Counted(disconnectCalled(arg))
    /\ res' = [last |-> "disconnect",
               disconnects |-> IF sessionPromise(arg) \in {"pending", "failing"}
                               THEN 0 ELSE res.disconnects + 1]
    /\ UNCHANGED chatVars

\* the closing of an audio context is done
ContextClosed(which) ==
    /\ arg[which] = "closing"
    /\ arg' = [arg EXCEPT ![which] = "closed"]
    /\ UNCHANGED res
    /\ UNCHANGED chatVars

NextChannel ==
    \/ \E outcome \in ConnectOutcomes : Connect(outcome)
    \/ \E k \in Conns : ChannelOpens(k)
    \/ \E k \in Conns : ChannelRejects(k)
    \/ \E k \in Conns, granted \in BOOLEAN, builds \in BOOLEAN :
           MicrophoneAnswers(k, granted, builds)
    \/ \E k \in Conns : ChannelCloses(k)
    \/ Disconnect
    \/ \E which \in {"inputAudioContext", "outputAudioContext"} : ContextClosed(which)

SpecChannel == InitChannel /\ [][NextChannel]_vars

-----------------------------------------------------------------------------
(* src/unnamed/part_005, lines 10-11: the reads of localStorage, and the   *)
(* init effect of App that starts with them. Here arg holds the items      *)
(* aidlex_chats and aidlex_chat_order as the strings localStorage has,     *)
(* aidlex_current as an optional id and the stored user name, and res what *)
(* the last call did.                                                      *)

\* a stored string: the empty string, the JSON text of a value, or a text
\* that is not JSON
EmptyString == [kind |-> "empty", value |-> << >>]
JSONstringify(value) == [kind |-> "json", value |-> value]
NotJSON == [kind |-> "garbage", value |-> <<"{", "oops">>]

\* JSON.parse(text): a SyntaxError on a text that is not JSON (the empty
\* string included)
JSONparse(text) ==
    IF text.kind = "json" THEN [threw |-> FALSE, value |-> text.value]
    ELSE [threw |-> TRUE, value |-> << >>]

\* JSON.parse(localStorage.getItem(KEY) || fallback): null and "" are falsy
ReadItem(item, fallback) ==
    JSONparse(IF IsDef(item) /\ Val(item).kind # "empty" THEN Val(item)
              ELSE JSONstringify(fallback))

\* the values of the items as the session service reads them, once they are
\* known to parse
ParsedStore(items) ==
    [EmptyStorage EXCEPT !.chats = Def(ReadItem(items.chats, EmptyMap).value),
                         !.order = Def(ReadItem(items.order, << >>).value),
                         !.current = items.current,
                         !.user_name = items.user_name]

\* the items after the session service wrote store: saveSessions and
\* saveOrder write JSON.stringify of the value, setCurrentSessionId the id
WrittenItems(items, store) ==
    [items EXCEPT !.chats = Def(JSONstringify(loadSessions(store))),
                  !.order = Def(JSONstringify(loadOrder(store))),
                  !.current = getCurrentSessionId(store)]

\* the init effect of App on the raw items, at Date.now() = t: loadOrder,
\* then createNewSession (which calls loadSessions and writes the three
\* items) when the order is empty, or the first id of the order made current
\* when there is no current id
InitEffect(items, t) ==
    LET order == ReadItem(items.order, << >>)
    IN  IF order.threw
        THEN [threw |-> TRUE, value |-> "nothing created", items |-> items]
        ELSE IF Len(order.value) = 0
        THEN IF ReadItem(items.chats, EmptyMap).threw
             THEN [threw |-> TRUE, value |-> "nothing created", items |-> items]
             ELSE [threw |-> FALSE, value |-> "session created",
                   items |-> WrittenItems(items,
                       createNewSession(ParsedStore(items), t, NewChatTitle,
                                        "none").ls)]
        ELSE IF ~IsDef(items.current)
        THEN [threw |-> FALSE, value |-> "session kept",
              items |-> [items EXCEPT !.current = Def(order.value[1])]]
        ELSE [threw |-> FALSE, value |-> "session kept", items |-> items]

ChatsItems == {Undef, Def(EmptyString), Def(NotJSON),
               Def(JSONstringify(EmptyMap)),
               Def(JSONstringify(loadSessions(InitialStore)))}
OrderItems == {Undef, Def(EmptyString), Def(NotJSON),
               Def(JSONstringify(<< >>)),
               Def(JSONstringify(loadOrder(InitialStore)))}
CurrentItems == {Undef, getCurrentSessionId(InitialStore)}

InitStorage ==
    /\ ChatInit
    /\ arg \in [chats : ChatsItems, order : OrderItems, current : CurrentItems,
                user_name : {Undef, Def(<<"N">>)}]
    /\ res = [fn |-> "none", threw |-> FALSE, value |-> << >>]

LoadSessions ==
    /\ res' = [fn |-> "loadSessions"] @@ ReadItem(arg.chats, EmptyMap)
    /\ UNCHANGED arg
    /\ UNCHANGED chatVars

LoadOrder ==
    /\ res' = [fn |-> "loadOrder"] @@ ReadItem(arg.order, << >>)
    /\ UNCHANGED arg
    /\ UNCHANGED chatVars

\* the page is loaded at Date.now() = t
AppInit(t) ==
    LET r == InitEffect(arg, t)
    IN  /\ res' = [fn |-> "init", threw |-> r.threw, value |-> r.value]
        /\ arg' = r.items
        /\ UNCHANGED chatVars

NextStorage ==
    \/ LoadSessions
    \/ LoadOrder
    \/ \E t \in 0..MaxClock : AppInit(t)

SpecStorage == InitStorage /\ [][NextStorage]_vars

-----------------------------------------------------------------------------
(* src/unnamed/part_004 and src/components/LiveChatUI.tsx: a live          *)
(* conversation, event by event. Here arg holds the live service and res   *)
(* the live view, with the calls of the view that are not finished and     *)
(* what it sent to the summary backend and to the channel.                 *)

Turn(speaker, text) == [speaker |-> speaker, text |-> text]

\* the turns a pair of accumulators stands for
TurnsOf(input, output) ==
    (IF input # << >> THEN <<Turn("user", input)>> ELSE << >>)
        \o (IF output # << >> THEN <<Turn("model", output)>> ELSE << >>)

\* onmessage, the transcription part: c holds currentInputTranscription,
\* currentOutputTranscription and transcriptionHistory; the result holds
\* them after the message and the list given to onTranscriptionUpdate, if
\* it was called
onmessageCurrentOnly(c, msg) ==
    LET acc == IF IsDef(msg.outputTranscription)
               THEN [c EXCEPT !.currentOutputTranscription =
                                  @ \o Val(msg.outputTranscription)]
               ELSE IF IsDef(msg.inputTranscription)
               THEN [c EXCEPT !.currentInputTranscription =
                                  @ \o Val(msg.inputTranscription)]
               ELSE c
        currentTurn == TurnsOf(acc.currentInputTranscription,
                               acc.currentOutputTranscription)
    IN  IF msg.turnComplete
        THEN LET history == acc.transcriptionHistory \o currentTurn
             IN  [c |-> [acc EXCEPT !.transcriptionHistory = history,
                                    !.currentInputTranscription = << >>,
                                    !.currentOutputTranscription = << >>],
                  notified |-> Def(history)]
        ELSE [c |-> acc,
              notified |-> IF Len(currentTurn) > 0 THEN Def(currentTurn) ELSE Undef]

onmessage(c, msg) ==
    LET acc == IF IsDef(msg.outputTranscription)
               THEN [c EXCEPT !.currentOutputTranscription =
                                  @ \o Val(msg.outputTranscription)]
               ELSE IF IsDef(msg.inputTranscription)
               THEN [c EXCEPT !.currentInputTranscription =
                                  @ \o Val(msg.inputTranscription)]
               ELSE c
        currentTurn == TurnsOf(acc.currentInputTranscription,
                               acc.currentOutputTranscription)
    IN  IF msg.turnComplete
        THEN LET history == acc.transcriptionHistory \o currentTurn
             IN  [c |-> [acc EXCEPT !.transcriptionHistory = history,
                                    !.currentInputTranscription = << >>,
                                    !.currentOutputTranscription = << >>],
                  notified |-> Def(history)]
        ELSE [c |-> acc,
              notified |-> IF Len(currentTurn) > 0
                           THEN Def(acc.transcriptionHistory \o currentTurn)
                           ELSE Undef]

\* the live view as it is mounted; querying: the handleConnect calls that
\* await navigator.permissions.query, each with the liveMessages its
\* handleToolCall was built with and whether its view is still on screen;
\* awaiting: the handleToolCall calls that await the summary; asked: the
\* transcripts sent to the summary backend; responses: the calls of
\* LiveService.sendToolResponse; delivered: the batches of function calls
\* the channels delivered
NoView ==
    [mounted |-> TRUE, connectionState |-> "disconnected",
     liveMessages |-> << >>, querying |-> << >>, awaiting |-> << >>,
     responses |-> << >>, asked |-> << >>, delivered |-> << >>]

Fragments == {<<"Hi.">>, <<"Please summarize our talk.">>}

\* the live view and the service after a conversation of one user turn that
\* the user ended with the Disconnect button, once the close event arrived
\* and the audio contexts are closed
EndedTurn == Turn("user", <<"Please summarize our talk.">>)

EndedService ==
    [NoService EXCEPT
        !.connections =
            <<[Connection(<< >>, TRUE) EXCEPT !.promise = "closed",
                                              !.transcriptionHistory = <<EndedTurn>>]>>,
        !.microphoneStream = "stopped",
        !.scriptProcessor = "disconnected",
        !.inputAudioContext = "closed",
        !.outputAudioContext = "closed",
        !.disconnected = TRUE,
        !.notified = Def(<<EndedTurn>>)]

EndedView == [NoView EXCEPT !.liveMessages = <<Transcript(EndedTurn)>>]

\* the live view was opened: for the first time, or with an ended
\* conversation on screen
InitVoice ==
    /\ ChatInit
    /\ \/ arg = NoService /\ res = NoView
       \/ arg = EndedService /\ res = EndedView

\* onStateChange(state) of a connection: setConnectionState of the view that
\* called connect, which does nothing once that view is unmounted
onStateChange(view, attached, state) ==
    IF attached THEN [view EXCEPT !.connectionState = state] ELSE view

\* the Start Live Chat button: handleConnect up to its await of
\* navigator.permissions.query; the button stays on screen meanwhile
HandleConnect ==
    /\ Event
    /\ res.mounted
    /\ res.connectionState \notin {"connected", "connecting"}
    /\ Len(res.querying) < MaxQueries
    /\ arg' = Counted(arg)
    /\ res' = [res EXCEPT !.querying =
                  Append(@, [handler |-> res.liveMessages, view |-> TRUE])]
    /\ UNCHANGED chatVars

\* permissions.query answers 'denied' to the handleConnect call q: the alert
\* and the return
PermissionDenied(q) ==
    /\ Event
    /\ q \in DOMAIN res.querying
    /\ arg' = Counted(arg)
    /\ res' = [res EXCEPT !.querying = RemoveAt(@, q)]
    /\ UNCHANGED chatVars

\* permissions.query answers 'granted' or 'prompt' to the handleConnect call
\* q, or rejects: LiveService.connect is called, which reports 'connecting'
\* and, when it throws before live.connect, 'error'
PermissionAnswered(q, outcome) ==
    /\ Event
    /\ q \in DOMAIN res.querying
    /\ outcome = "started" => Len(Alive(arg)) < MaxConnects
    /\ LET call == res.querying[q]
       IN  /\ arg' = Counted(connect(arg, outcome, call.handler, call.view))
           /\ res' = onStateChange([res EXCEPT !.querying = RemoveAt(@, q)],
                                   call.view,
                                   IF outcome = "started" THEN "connecting"
                                   ELSE "error")
    /\ UNCHANGED chatVars

\* the channel of connection k opens
OnOpen(k) ==
    /\ Event /\ Has(k)
    /\ arg.connections[k].promise = "pending"
    /\ arg' = Counted(onopen(arg, k))
    /\ res' = onStateChange(res, arg.connections[k].view, "connected")
    /\ UNCHANGED chatVars

\* live.connect of connection k rejects
ConnectRejected(k) ==
    /\ Event /\ Has(k)
    /\ arg.connections[k].promise \in {"pending", "failing"}
    /\ arg' = Counted(connectRejected(arg, k))
    /\ UNCHANGED res
    /\ UNCHANGED chatVars

\* getUserMedia resolves in the onopen of connection k
MicGranted(k, builds) ==
    /\ Event /\ Has(k)
    /\ arg.connections[k].micAsked
    /\ arg.inputAudioContext = "running" => builds
    /\ arg' = Counted(microphoneGranted(arg, k, builds))
    /\ UNCHANGED res
    /\ UNCHANGED chatVars

\* getUserMedia rejects in the onopen of connection k
MicDenied(k) ==
    /\ Event /\ Has(k)
    /\ arg.connections[k].micAsked
    /\ arg' = Counted(microphoneDenied(arg, k))
    /\ UNCHANGED res
    /\ UNCHANGED chatVars

\* serverContent of a message: at most one fragment of each transcription,
\* turnComplete, audio of the model turn
ServerContents ==
    [inputTranscription : {Undef} \cup {Def(f) : f \in Fragments},
     outputTranscription : {Undef} \cup {Def(f) : f \in Fragments},
     turnComplete : BOOLEAN,
     audio : BOOLEAN]

\* the inbound audio sources started and not ended, over all connections
RECURSIVE Sources(_)
Sources(connections) ==
    IF connections = << >> THEN 0
    ELSE Len(Head(connections).sources) + Sources(Tail(connections))

\* a message without tool calls arrives on the channel of connection k:
\* onmessage; its audio is played on the outputAudioContext of this moment
OnMessage(k, msg) ==
    /\ Event /\ Has(k)
    /\ arg.connections[k].promise = "open"
    /\ Len(arg.connections[k].transcriptionHistory) < MaxHistory
    /\ Len(arg.connections[k].currentInputTranscription)
          + Len(arg.connections[k].currentOutputTranscription) < MaxFragments
    /\ msg.audio => Sources(arg.connections) < MaxSources
    /\ LET r == onmessage(arg.connections[k], msg)
       IN  /\ arg' = Counted([arg EXCEPT
                         !.connections[k] =
                             [r.c EXCEPT !.sources = IF msg.audio
                                                     THEN Append(@, "current")
                                                     ELSE @],
                         !.notified = r.notified,
                         !.toolCall = FALSE])
           /\ res' = IF IsDef(r.notified) /\ arg.connections[k].view
                     THEN [res EXCEPT !.liveMessages =
                              handleTranscriptionUpdate(Val(r.notified), @)]
                     ELSE res
    /\ UNCHANGED chatVars

\* an inbound audio source of connection k played to its end: 'ended'
SourcePlayed(k) ==
    /\ Event /\ Has(k)
    /\ arg.connections[k].sources # << >>
    /\ ContextOf(arg.connections[k].sources[1], arg.outputAudioContext)
          \in {"running", "closing"}
    /\ arg' = Counted([arg EXCEPT !.connections[k].sources = Tail(@)])
    /\ UNCHANGED res
    /\ UNCHANGED chatVars

\* the channel of connection k reports an error: onerror
OnError(k) ==
    /\ Event /\ Has(k)
    /\ arg.connections[k].promise \in {"pending", "open"}
    /\ arg' = Counted(onerror(arg, k))
    /\ res' = onStateChange(res, arg.connections[k].view, "error")
    /\ UNCHANGED chatVars

\* the close event of the channel of connection k: onclose. It comes to a
\* channel that was closed or failed while opening (closeEvent), and to an
\* open channel the server closes.
OnClose(k) ==
    /\ Event /\ Has(k)
    /\ arg.connections[k].closeEvent \/ arg.connections[k].promise = "open"
    /\ arg' = Counted(onclose(arg, k))
    /\ res' = onStateChange(res, arg.connections[k].view, "disconnected")
    /\ UNCHANGED chatVars

\* the Disconnect button, enabled once connected: handleDisconnect
HandleDisconnect ==
    /\ Event
    /\ res.mounted
    /\ res.connectionState = "connected"
    /\ arg' = Counted(disconnectCalled(arg))
    /\ res' = [res EXCEPT !.connectionState = "disconnected"]
    /\ UNCHANGED chatVars

Detached(pending) == [i \in DOMAIN pending |-> [pending[i] EXCEPT !.view = FALSE]]

\* the Close button of the live view: the view is unmounted and its cleanup
\* calls LiveService.disconnect(), whatever the connection state; the calls
\* of the view that are not finished go on without it
Unmount ==
    /\ Event
    /\ res.mounted
    /\ arg' = Counted(disconnectCalled(
                  [arg EXCEPT !.connections = Detached(@)]))
    /\ res' = [res EXCEPT !.mounted = FALSE,
                          !.connectionState = "disconnected",
                          !.liveMessages = << >>,
                          !.querying = Detached(@),
                          !.awaiting = Detached(@)]
    /\ UNCHANGED chatVars

\* startChat('live'): the live view is mounted again, with its initial state
OpenLive ==
    /\ Event
    /\ ~res.mounted
    /\ arg' = Counted(arg)
    /\ res' = [res EXCEPT !.mounted = TRUE]
    /\ UNCHANGED chatVars

\* String.prototype.length of a text given as its pieces
RECURSIVE Length(_)
Length(text) == IF text = << >> THEN 0 ELSE Len(Head(text)) + Length(Tail(text))

\* liveMessages.filter(transcript).map(`${speaker}: ${text}`).join('\n')
RECURSIVE JoinLines(_)
JoinLines(lines) ==
    IF lines = << >> THEN << >>
    ELSE IF Len(lines) = 1 THEN lines[1]
    ELSE lines[1] \o <<"\n">> \o JoinLines(Tail(lines))

TranscriptText(liveMessages) ==
    LET IsTranscript(m) == m.type = "transcript"
        shown == SelectSeq(liveMessages, IsTranscript)
    IN  JoinLines([k \in 1..Len(shown) |->
                      <<shown[k].turn.speaker, ": ">> \o shown[k].turn.text])

NotEnough == <<"Not enough conversation to summarize.">>
Summarizing == <<"Summarizing conversation...">>
SummaryShown == <<"Summary was generated and displayed to the user.">>
SummaryFailed == <<"Failed to generate summary.">>
MinTranscript == 20

\* LiveService.sendToolResponse(id, name, result), as the view calls it
sendToolResponse(view, call, result) ==
    [view EXCEPT !.responses =
        Append(@, [id |-> call.id, name |-> call.name, result |-> result])]

\* setLiveMessages(prev => [...prev, { type: 'system', text }]) of a handler,
\* which does nothing once its view is unmounted
addSystemMessage(view, attached, text) ==
    IF attached THEN [view EXCEPT !.liveMessages = Append(@, System(text))]
    ELSE view

\* handleToolCall(calls) up to its first await or to its end; liveMessages:
\* the list the handler was built with; attached: its view is on screen. A
\* handler that awaits the summary is kept in awaiting with the calls it has
\* not finished.
RECURSIVE handleToolCall(_, _, _, _)
handleToolCall(view, liveMessages, attached, functionCalls) ==
    IF functionCalls = << >> THEN view
    ELSE IF Head(functionCalls).name # "summarizeConversation"
    THEN handleToolCall(view, liveMessages, attached, Tail(functionCalls))
    ELSE LET transcriptText == TranscriptText(liveMessages)
         IN  IF Length(transcriptText) < MinTranscript
             THEN sendToolResponse(view, Head(functionCalls), NotEnough)
             ELSE [addSystemMessage(view, attached, Summarizing) EXCEPT
                      !.asked = Append(@, transcriptText),
                      !.awaiting = Append(@, [left |-> functionCalls,
                                              liveMessages |-> liveMessages,
                                              view |-> attached])]

\* getSimpleTextResponse settles for the handler j: the second system
\* message, the tool response, then the calls that are left
summarySettled(view, j, message, result) ==
    LET h == view.awaiting[j]
        v1 == addSystemMessage([view EXCEPT !.awaiting = RemoveAt(@, j)],
                               h.view, message)
        v2 == sendToolResponse(v1, Head(h.left), result)
    IN  handleToolCall(v2, h.liveMessages, h.view, Tail(h.left))

ToolNames == {"summarizeConversation", "other"}

\* the batches of function calls a message can carry; the channel numbers
\* its calls
Batches(first) ==
    {<<[id |-> first, name |-> n]>> : n \in ToolNames}
        \cup {<<[id |-> first, name |-> n], [id |-> first + 1, name |-> m]>> :
                 n \in ToolNames, m \in ToolNames}

RECURSIVE Flatten(_)
Flatten(batches) ==
    IF batches = << >> THEN << >> ELSE Head(batches) \o Flatten(Tail(batches))

\* the serverContent of a message that carries a toolCall: none
NoContent ==
    [inputTranscription |-> Undef, outputTranscription |-> Undef,
     turnComplete |-> FALSE, audio |-> FALSE]

\* a message with a toolCall arrives on the channel of connection k:
\* onmessage hands the calls to the handleToolCall its connect was given,
\* which runs up to its first await, and goes on: with a turn in progress
\* it notifies the history and the turn in progress
ToolCall(k, functionCalls) ==
    /\ Event /\ Has(k)
    /\ arg.connections[k].promise = "open"
    /\ Len(res.delivered) < MaxBatches
    /\ LET r == onmessage(arg.connections[k], NoContent)
           handled == handleToolCall(
                          [res EXCEPT !.delivered = Append(@, functionCalls)],
                          arg.connections[k].handler,
                          arg.connections[k].view, functionCalls)
       IN  /\ arg' = Counted([arg EXCEPT !.connections[k] = r.c,
                                         !.notified = r.notified,
                                         !.toolCall = TRUE])
           /\ res' = IF IsDef(r.notified) /\ arg.connections[k].view
                     THEN [handled EXCEPT !.liveMessages =
                              handleTranscriptionUpdate(Val(r.notified), @)]
                     ELSE handled
    /\ UNCHANGED chatVars

\* getSimpleTextResponse returns the summary
SummaryResolves(j) ==
    /\ Event
    /\ j \in DOMAIN res.awaiting
    /\ arg' = Counted(arg)
    /\ res' = summarySettled(res, j, <<"Summary: ", "s">>, SummaryShown)
    /\ UNCHANGED chatVars

\* getSimpleTextResponse throws
SummaryRejects(j) ==
    /\ Event
    /\ j \in DOMAIN res.awaiting
    /\ arg' = Counted(arg)
    /\ res' = summarySettled(res, j, SummaryFailed, SummaryFailed)
    /\ UNCHANGED chatVars

\* the closing of the audio context a variable of the module holds is done
AudioContextClosed(which) ==
    /\ arg[which] = "closing"
    /\ arg' = [arg EXCEPT ![which] = "closed"]
    /\ UNCHANGED res
    /\ UNCHANGED chatVars

\* the closing of an output context that a later connect replaced is done
SupersededContextClosed(k) ==
    /\ Has(k)
    /\ arg.connections[k].sources # << >>
    /\ arg.connections[k].sources[1] = "closing"
    /\ arg' = [arg EXCEPT !.connections[k].sources[1] = "closed"]
    /\ UNCHANGED res
    /\ UNCHANGED chatVars

NextVoice ==
    \/ HandleConnect
    \/ \E q \in 1..MaxQueries : PermissionDenied(q)
    \/ \E q \in 1..MaxQueries, outcome \in ConnectOutcomes :
           PermissionAnswered(q, outcome)
    \/ \E k \in Conns : OnOpen(k)
    \/ \E k \in Conns : ConnectRejected(k)
    \/ \E k \in Conns, builds \in BOOLEAN : MicGranted(k, builds)
    \/ \E k \in Conns : MicDenied(k)
    \/ \E k \in Conns, msg \in ServerContents : OnMessage(k, msg)
    \/ \E k \in Conns : SourcePlayed(k)
    \/ \E k \in Conns : OnError(k)
    \/ \E k \in Conns : OnClose(k)
    \/ HandleDisconnect
    \/ Unmount
    \/ OpenLive
    \/ \E which \in {"inputAudioContext", "outputAudioContext"} :
           AudioContextClosed(which)
    \/ \E k \in Conns : SupersededContextClosed(k)
    \/ \E k \in Conns,
          functionCalls \in Batches(Len(Flatten(res.delivered)) + 1) :
           ToolCall(k, functionCalls)
    \/ \E j \in 1..MaxBatches : SummaryResolves(j)
    \/ \E j \in 1..MaxBatches : SummaryRejects(j)

SpecVoice == InitVoice /\ [][NextVoice]_vars

-----------------------------------------------------------------------------
(* Properties of the send path.                                            *)

\* the message list of session sid in a map of sessions, empty when absent
MessagesOf(all, sid) == IF sid \in DOMAIN all THEN all[sid].messages ELSE << >>

Stored(sid) == MessagesOf(loadSessions(ls), sid)
Shown(sid) == MessagesOf(sessions, sid)

\* the same after the step
StoredNext(sid) == MessagesOf(loadSessions(ls'), sid)
ShownNext(sid) == MessagesOf(sessions', sid)

\* the send c has its model message in msgs: the empty message ChatUI.tsx
\* appended for it (at c.slot), the message part_000 appended when the send
\* settled (the last one)
HasAnswer(msgs, c) ==
    IF ui = "ChatUI"
    THEN c.slot \in 1..Len(msgs) /\ msgs[c.slot].role = "model"
    ELSE msgs # << >>

AnswerOf(msgs, c) == IF ui = "ChatUI" THEN msgs[c.slot] ELSE msgs[Len(msgs)]

\* C1: when a streamed send finishes in the view that started it, the model
\* message appended for the send holds the chunks concatenated in arrival
\* order and the suggested replies of the complete event.
C1_StreamedMessageComplete ==
    [][\A i \in DOMAIN calls :
          (/\ StreamEnd(i)
           /\ calls[i].live
           /\ HasAnswer(ShownNext(calls[i].sid), calls[i]))
          => LET m == AnswerOf(ShownNext(calls[i].sid), calls[i])
             IN  /\ m.content = Concat(calls[i].chunks)
                 /\ m.suggestedReplies = Def(ChatReplies)]_vars

ErrorIffRetry(all) ==
    \A id \in DOMAIN all : \A k \in 1..Len(all[id].messages) :
        all[id].messages[k].error <=> IsDef(all[id].messages[k].promptForRetry)

\* C2: in every reachable state every message of every session, shown or
\* stored, has error = true exactly when its promptForRetry is set.
C2_ErrorIffPromptForRetry ==
    ErrorIffRetry(sessions) /\ ErrorIffRetry(loadSessions(ls))

\* a failed send left its error message, and a later send of the session has
\* its answer
C2_FailureThenSuccess ==
    \E id \in DOMAIN sessions :
        \E k, l \in 1..Len(sessions[id].messages) :
            /\ k < l
            /\ sessions[id].messages[k].error
            /\ IsDef(sessions[id].messages[k].promptForRetry)
            /\ sessions[id].messages[l].role = "model"
            /\ ~sessions[id].messages[l].error
            /\ sessions[id].messages[l].content # << >>
            /\ \E j \in (k + 1)..(l - 1) : sessions[id].messages[j].role = "user"

\* C3: when the stream of a send fails after chunks were applied, the model
\* message of the send keeps the content received so far and carries
\* error = true, the prompt as promptForRetry and the file that was sent.
C3_FailureKeepsPartialContent ==
    [][\A i \in DOMAIN calls :
          (/\ Fail(i)
           /\ calls[i].live
           /\ calls[i].chunks # << >>
           /\ HasAnswer(ShownNext(calls[i].sid), calls[i]))
          => LET m == AnswerOf(ShownNext(calls[i].sid), calls[i])
             IN  /\ m.content = Concat(calls[i].chunks)
                 /\ m.error
                 /\ m.promptForRetry = Def(calls[i].prompt)
                 /\ m.fileData = calls[i].file]_vars

\* C4: no two sends started from the chat view are in flight for the same
\* session at the same time.
C4_OneSendInFlightPerSession ==
    \A i, j \in DOMAIN calls :
        (i # j /\ calls[i].live /\ calls[j].live) => calls[i].sid # calls[j].sid

\* C5: when the backend answers a send whose chat view was left, the stored
\* session's model message of that send holds the answer.
C5_LateResultStored ==
    [][\A i \in DOMAIN calls :
          LET c == calls[i]
              Late == ~c.live /\ HasAnswer(StoredNext(c.sid), c)
              content == AnswerOf(StoredNext(c.sid), c).content
          IN  /\ (StreamEnd(i) /\ Late) => content = Concat(c.chunks)
              /\ \A g \in Grounded :
                    (GroundedAnswer(i, g.sources, g.text) /\ Late) => content = g.text
              /\ \A raw \in RawResponses :
                    (ChatAnswer(i, raw) /\ Late) => content = getChatResponseB(raw).text
              /\ \A data \in Bundles :
                    (BriefAnswer(i, data) /\ Late) =>
                        content = IF ui = "ChatUI" THEN BriefText
                                  ELSE <<"Research Brief">>]_vars

AuthPrompts(msgs) ==
    LET IsPrompt(m) == m.messageType = "auth_prompt"
    IN  Len(SelectSeq(msgs, IsPrompt))

UserMessages(msgs) ==
    LET IsUser(m) == m.role = "user"
    IN  SelectSeq(msgs, IsUser)

\* C6: in a session created while no user name was stored, sending the first
\* user message N stores N as the user name and leaves exactly one
\* auth_prompt message in the session, shown and stored.
C6_NameThenAuthPrompt ==
    [][\A c \in Composed, via \in {"button", "enter"} :
          (/\ SendMessage(c.input, c.file, via)
           /\ Trim(c.input) # << >>
           /\ Val(currentSessionId) \in DOMAIN sessions
           /\ sessions[Val(currentSessionId)].meta.needsOnboarding
           /\ ~Truthy(getUserName(ls))
           /\ UserMessages(Shown(Val(currentSessionId))) = << >>)
          => /\ getUserName(ls') = Def(Trim(c.input))
             /\ AuthPrompts(ShownNext(Val(currentSessionId))) = 1
             /\ AuthPrompts(StoredNext(Val(currentSessionId))) = 1]_vars

\* C7: submitting the auth prompt (guest contact or sign-in) leaves no
\* auth_prompt message in the session, shown or stored, and appends exactly
\* one confirmation message.
C7_AuthPromptResolved ==
    [][\A data \in AuthData :
          AuthPromptSubmit(data)
          => LET sid == Val(currentSessionId)
             IN  /\ AuthPrompts(ShownNext(sid)) = 0
                 /\ AuthPrompts(StoredNext(sid)) = 0
                 /\ Len(ShownNext(sid)) = Len(Shown(sid)) - AuthPrompts(Shown(sid)) + 1]_vars

ErrorsFor(msgs, prompt) ==
    LET Stale(m) == IsStaleError(m, prompt)
    IN  Len(SelectSeq(msgs, Stale))

\* C8: a retry leaves no error message of the retried prompt in the session,
\* shown or stored, adds no user message and resubmits the prompt; when the
\* retried send fails again the stored session gains one error message.
C8_RetryReplacesStaleError ==
    [][/\ \A k \in 1..(2 * MaxSteps), attached \in {Undef, Def("doc.pdf")} :
             Retry(k, attached)
             => LET sid == Val(currentSessionId)
                    p == Val(Shown(sid)[k].promptForRetry)
                IN  /\ ErrorsFor(ShownNext(sid), p) = 0
                    /\ ErrorsFor(StoredNext(sid), p) = 0
                    /\ UserMessages(ShownNext(sid)) = UserMessages(Shown(sid))
                    /\ UserMessages(StoredNext(sid)) = UserMessages(Stored(sid))
                    /\ \E i \in DOMAIN calls' :
                          calls'[i].retry /\ calls'[i].prompt = p /\ calls'[i].sid = sid
       /\ \A i \in DOMAIN calls :
             (Fail(i) /\ calls[i].retry /\ calls[i].sid \in DOMAIN loadSessions(ls))
             => /\ ErrorsFor(StoredNext(calls[i].sid), calls[i].prompt)
                      = ErrorsFor(Stored(calls[i].sid), calls[i].prompt) + 1
                /\ UserMessages(StoredNext(calls[i].sid)) = UserMessages(Stored(calls[i].sid))
      ]_vars

\* a retry is in flight: the stale error message is gone, the user message
\* of the prompt is still there once
C8_RetryInFlight ==
    \E i \in DOMAIN calls :
        /\ calls[i].retry
        /\ ErrorsFor(Stored(calls[i].sid), calls[i].prompt) = 0
        /\ LET Same(m) == m.content = calls[i].prompt
           IN  Len(SelectSeq(UserMessages(Stored(calls[i].sid)), Same)) = 1

ActiveSources ==
    {s \in DOMAIN player.sources : player.sources[s].state = "playing"}

\* what the read-aloud button of the k-th shown message passes as the index
PlayKey(k) ==
    IF ui = "ChatUI" THEN k - 1 ELSE Shown(Val(currentSessionId))[k].ts

\* C9: at most one playback source is active at any time; play on the index
\* that is speaking stops it and leaves no speaking index; play on another
\* index leaves none of the sources that were active still active.
C9_OnePlaybackSource ==
    /\ [](Cardinality(ActiveSources) <= 1 /\ Len(player.queue) <= 1)
    /\ [][\A k \in 1..(2 * MaxSteps), b \in BOOLEAN :
             PlayAudio(k, b)
             => IF player.speaking = Def(PlayKey(k))
                THEN /\ ActiveSources' = {}
                     /\ player'.queue = << >>
                     /\ player'.speaking = Undef
                ELSE /\ ActiveSources' \cap ActiveSources = {}
                     /\ player'.queue \in {<< >>, <<Utterance(PlayKey(k))>>}]_vars

\* a second message is being read aloud after the reading of another one
\* was cut off
C9_SwitchedPlayback ==
    /\ player.ends # << >>
    /\ Len(player.queue) = 1
    /\ player.speaking = Def(player.queue[1].ts)
    /\ player.ends[1].ts # player.queue[1].ts

\* C10: when the research-brief backend throws, the model message of the
\* send carries error = true and a promptForRetry, no researchData, and is
\* not of type research_brief.
C10_BriefFailureMarked ==
    [][\A i \in DOMAIN calls :
          (/\ Fail(i)
           /\ calls[i].kind = "brief"
           /\ calls[i].live
           /\ HasAnswer(ShownNext(calls[i].sid), calls[i]))
          => LET m == AnswerOf(ShownNext(calls[i].sid), calls[i])
             IN  /\ m.error
                 /\ IsDef(m.promptForRetry)
                 /\ ~IsDef(m.researchData)
                 /\ m.messageType # "research_brief"]_vars

-----------------------------------------------------------------------------
(* Properties of the session store.                                        *)

\* session id of the map all opens with a message of the model
Greets(all, id) ==
    id \in DOMAIN all => /\ all[id].messages # << >>
                         /\ all[id].messages[1].role = "model"

\* C11: the session the App created at start, and every session a later
\* handler creates, has a non-empty message list whose first message has role
\* model, as stored under its id and as returned to the chat view.
C11_CreatedSessionGreets ==
    /\ \A id \in DOMAIN loadSessions(ls) : Greets(loadSessions(ls), id)
    /\ [][\A id \in DOMAIN loadSessions(ls') \ DOMAIN loadSessions(ls) :
             /\ id \in DOMAIN loadSessions(ls')
             /\ Greets(loadSessions(ls'), id)
             /\ Greets(sessions', id)]_vars

\* a session was created while a user name was stored: it holds its
\* welcome-back greeting only
C11_CreatedForKnownUser ==
    \E id \in DOMAIN loadSessions(ls) :
        LET session == loadSessions(ls)[id]
        IN  /\ Truthy(getUserName(ls))
            /\ Len(session.messages) = 1
            /\ session.messages[1].content =
                   WelcomeBack(Val(getUserName(ls)), session.meta.code)

\* C12: when a step appends a user message to a stored session, the message
\* that was last loses its suggestedReplies if it is a model message and is
\* unchanged if it is a user message, and no earlier message changes.
C12_UserAppendClearsReplies ==
    [][\A sid \in DOMAIN loadSessions(ls) :
          LET old == Stored(sid)
              new == StoredNext(sid)
              n == Len(old)
          IN  (Len(new) > n /\ new[n + 1].role = "user")
              => /\ \A k \in 1..(n - 1) : new[k] = old[k]
                 /\ n > 0 =>
                       new[n] = IF old[n].role = "model"
                                THEN [old[n] EXCEPT !.suggestedReplies = Undef]
                                ELSE old[n]]_vars

\* an answer of the backend, which always carries suggestedReplies when it is
\* appended, is stored without them and followed by a user message
C12_RepliesCleared ==
    \E sid \in DOMAIN loadSessions(ls) :
        \E k \in 2..(Len(Stored(sid)) - 1) :
            /\ ui = "part_000"
            /\ Stored(sid)[k].role = "model"
            /\ Stored(sid)[k].messageType \in {"standard", "wizard"}
            /\ ~IsDef(Stored(sid)[k].suggestedReplies)
            /\ Stored(sid)[k + 1].role = "user"

-----------------------------------------------------------------------------
(* Properties of the response classifier.                                  *)

\* text holds <<X>> at position i, X being n characters none of which is >
PlaceholderAt(text, i, n) ==
    /\ i + n + 3 <= Len(text)
    /\ SubSeq(text, i, i + 1) = <<"<", "<">>
    /\ \A k \in (i + 2)..(i + n + 1) : text[k] # ">"
    /\ SubSeq(text, i + n + 2, i + n + 3) = <<">", ">">>

\* C13: checkPlaceholders(text) is wizard exactly when text holds a
\* placeholder <<X>> with X a non-empty run of characters other than >, and
\* standard otherwise.
C13_WizardIffPlaceholder ==
    IsDef(res) =>
        IF \E i \in 1..Len(arg), n \in 1..Len(arg) : PlaceholderAt(arg, i, n)
        THEN Val(res) = "wizard"
        ELSE Val(res) = "standard"

\* a text whose placeholder name begins with < was classified wizard
C13_ClassifiedWizard ==
    /\ res = Def("wizard")
    /\ arg = <<"<", "<", "<", "x", ">", ">">>

-----------------------------------------------------------------------------
(* Properties of the wizard.                                               *)

\* the template with every <<P>> replaced by what was entered for P, or by
\* the marker of P when nothing was entered, from position i on
RECURSIVE Filled(_, _, _)
Filled(text, i, values) ==
    IF i > Len(text) THEN << >>
    ELSE IF MatchLen(text, i) > 0
    THEN LET P == SubSeq(text, i + 2, i + MatchLen(text, i) - 3)
         IN  (IF values[P] # << >> THEN values[P] ELSE NotProvided(P))
             \o Filled(text, i + MatchLen(text, i), values)
    ELSE <<text[i]>> \o Filled(text, i + 1, values)

\* C14: the finalized text is the template with every occurrence of every
\* placeholder <<P>> replaced by the value entered for P, or by
\* [P_NOT_PROVIDED] when the value is empty, and nothing else changed.
C14_FinalizedTextFilled ==
    IsDef(res) => Val(res) = Filled(arg.templateContent, 1, arg.values)

\* C15: finalizing the wizard of a message changes that message in place:
\* its content becomes the finalized text and its type 'standard', the
\* session keeps its number of messages and no other message changes.
C15_WizardFinalizedInPlace ==
    [][\A k \in 1..(2 * MaxSteps), values \in [{<<"x">>} -> FieldValues] :
          FinalizeWizard(k, values) =>
              LET sid == Val(currentSessionId)
                  old == Shown(sid)
                  new == ShownNext(sid)
              IN  /\ Len(new) = Len(old)
                  /\ new[k].content = handleFinalize(old[k].content, values)
                  /\ new[k].messageType = "standard"
                  /\ \A j \in 1..Len(old) : j # k => new[j] = old[j]
                  /\ StoredNext(sid) = new]_vars

\* C18: addMessageToSession on a session id that is not in the store returns
\* null and leaves the store (the session map and the order list) as it was,
\* and addMessage then leaves the sessions in memory as they were.
C18_UnknownSessionIsNoOp ==
    [][(AppendMessage /\ arg.sessionId \notin DOMAIN loadSessions(ls)) =>
          /\ res' = Def(Undef)
          /\ ls' = ls
          /\ sessions' = sessions]_vars

\* a message was appended to a session the store does not hold
C18_AppendedToUnknown ==
    /\ res = Def(Undef)
    /\ arg.sessionId \notin DOMAIN loadSessions(ls)
    /\ DOMAIN loadSessions(ls) # {}

\* C19: clearAllSessions leaves a store with no session, no order list and
\* no current-session pointer, and clearing that store again, or a store
\* that was already empty, leaves it the same.
C19_ClearAllIdempotent ==
    [][ClearAll =>
          /\ loadSessions(ls') = EmptyMap
          /\ loadOrder(ls') = << >>
          /\ getCurrentSessionId(ls') = Undef
          /\ clearAllSessions(ls') = ls'
          /\ res >= 1 => ls' = ls]_vars

\* a store holding sessions was cleared twice in a row
C19_ClearedTwice ==
    /\ res = 2
    /\ loadSessions(ls) = EmptyMap
    /\ arg = ls

\* C22: in a session, stored or shown, at most one message has suggested
\* replies to offer, and a message that has some is the last of the session.
C22_OneLiveReplySet ==
    \A all \in {loadSessions(ls), sessions} : \A id \in DOMAIN all :
        \A k \in 1..Len(all[id].messages) :
            Truthy(all[id].messages[k].suggestedReplies) =>
                k = Len(all[id].messages)

\* a step that appends to session A, streams into it, finishes a send of it,
\* or changes its persona
OperationOn(A) ==
    \/ /\ currentSessionId = Def(A)
       /\ \/ \E c \in Composed, via \in {"button", "enter"} :
                SendMessage(c.input, c.file, via)
          \/ \E persona \in Personas : PersonaChange(persona)
    \/ \E i \in DOMAIN calls :
          /\ calls[i].sid = A
          /\ \/ \E text \in ChunkTexts : StreamChunk(i, text)
             \/ StreamEnd(i)
             \/ \E data \in Bundles : BriefAnswer(i, data)
             \/ \E g \in Grounded : GroundedAnswer(i, g.sources, g.text)
             \/ \E raw \in RawResponses : ChatAnswer(i, raw)
             \/ Fail(i)

\* C23: an append, a stream chunk, the final mutation of a send or a persona
\* change performed for one session leaves the messages of every other
\* session as they were, on screen and in the store.
C23_OtherSessionsUntouched ==
    [][\A A \in 0..MaxClock : OperationOn(A) =>
          \A B \in 0..MaxClock : B # A =>
              /\ (B \in DOMAIN sessions /\ B \in DOMAIN sessions') =>
                     ShownNext(B) = Shown(B)
              /\ StoredNext(B) = Stored(B)]_vars

\* the title addMessageToSession derives from the content of a user message
DerivedTitle(content) ==
    Slice0(content, TitleLen) \o (IF Len(content) > TitleLen THEN Ellipsis ELSE << >>)

UserCount(msgs) == Cardinality({k \in 1..Len(msgs) : msgs[k].role = "user"})

\* C24: a message appended to a stored session changes the title only when
\* it is a user message, the title is still "New chat" and needsOnboarding
\* is false, and then the title is derived from its content; and a session
\* that began with the onboarding greeting has a derived title once it
\* holds a user message after the one that gave the name.
C24_TitleDerived ==
    /\ [](\A id \in DOMAIN loadSessions(ls) :
            (/\ Stored(id)[1].content = OnboardingGreeting
             /\ UserCount(Stored(id)) >= 2) =>
                loadSessions(ls)[id].title # NewChatTitle)
    /\ [][\A id \in DOMAIN loadSessions(ls) \cap DOMAIN loadSessions(ls') :
            LET old == loadSessions(ls)[id]
                new == loadSessions(ls')[id]
                n == Len(old.messages)
            IN  (/\ Len(new.messages) = n + 1
                 /\ SubSeq(new.messages, 1, n - 1) = SubSeq(old.messages, 1, n - 1)) =>
                    new.title =
                        IF /\ new.messages[n + 1].role = "user"
                           /\ old.title = NewChatTitle
                           /\ ~old.meta.needsOnboarding
                        THEN DerivedTitle(new.messages[n + 1].content)
                        ELSE old.title]_vars

\* C25: createNewSession puts the new id at the front of the order list,
\* stores the session under it, makes it the current session and sets
\* needsOnboarding exactly when no user name is persisted; and whatever was
\* created and cleared, the order list holds no id twice and only ids of
\* stored sessions.
C25_CreatedSessionOrdered ==
    /\ [](/\ \A i, j \in 1..Len(loadOrder(ls)) :
                i # j => loadOrder(ls)[i] # loadOrder(ls)[j]
          /\ \A i \in 1..Len(loadOrder(ls)) :
                loadOrder(ls)[i] \in DOMAIN loadSessions(ls))
    /\ [][\A t \in 0..MaxClock, code \in Codes :
            CreateSession(t, code) =>
                /\ loadOrder(ls') = <<t>> \o loadOrder(ls)
                /\ t \in DOMAIN loadSessions(ls')
                /\ loadSessions(ls')[t].id = t
                /\ getCurrentSessionId(ls') = Def(t)
                /\ loadSessions(ls')[t].meta.needsOnboarding
                      = ~Truthy(getUserName(ls))]_vars

\* C26: logging out removes the stored user name, auth status and email and
\* creates a session that becomes current and needs onboarding, while every
\* session that existed keeps its messages and its needsOnboarding value, in
\* the store and on screen.
C26_LogoutStartsOver ==
    [][Logout =>
          /\ ls'.user_name = Undef /\ ls'.auth_status = Undef /\ ls'.user_email = Undef
          /\ userName' = Undef /\ authStatus' = "guest"
          /\ \E id \in DOMAIN loadSessions(ls') \ DOMAIN loadSessions(ls) :
                /\ currentSessionId' = Def(id)
                /\ getCurrentSessionId(ls') = Def(id)
                /\ loadSessions(ls')[id].meta.needsOnboarding
                /\ id \in DOMAIN sessions'
                /\ sessions'[id].meta.needsOnboarding
          /\ \A id \in DOMAIN loadSessions(ls) :
                /\ id \in DOMAIN loadSessions(ls')
                /\ StoredNext(id) = Stored(id)
                /\ loadSessions(ls')[id].meta.needsOnboarding
                      = loadSessions(ls)[id].meta.needsOnboarding
          /\ \A id \in DOMAIN sessions :
                /\ id \in DOMAIN sessions'
                /\ ShownNext(id) = Shown(id)
                /\ sessions'[id].meta.needsOnboarding
                      = sessions[id].meta.needsOnboarding]_vars

\* a user who gave a name and signed in has logged out: the session of that
\* conversation is kept and a new one that needs onboarding is current
C26_LoggedOut ==
    /\ getUserName(ls) = Undef
    /\ authStatus = "guest"
    /\ \E old, new \in DOMAIN loadSessions(ls) :
          /\ ~loadSessions(ls)[old].meta.needsOnboarding
          /\ Len(Stored(old)) > 1
          /\ loadSessions(ls)[new].meta.needsOnboarding
          /\ currentSessionId = Def(new)

\* C17: within one session, stored or shown, no two messages have the same
\* ts.
C17_DistinctTs ==
    \A all \in {loadSessions(ls), sessions} : \A id \in DOMAIN all :
        \A i, j \in 1..Len(all[id].messages) :
            i # j => all[id].messages[i].ts # all[id].messages[j].ts

-----------------------------------------------------------------------------
(* Properties of the live view.                                            *)

\* how many visible entries are the transcript of this turn
Entries(messages, turn) ==
    Cardinality({k \in 1..Len(messages) : messages[k] = Transcript(turn)})

\* C16: after the turns notified are merged, merging the same turns again
\* changes nothing, and every (speaker, text) turn of the notified list,
\* however often it occurs there, has exactly one visible entry.
C16_TranscriptMergeIdempotent ==
    [][\A turns \in SeqsUpTo(Turns, MaxTurns) :
          TranscriptionUpdate(turns) =>
              /\ handleTranscriptionUpdate(turns, res') = res'
              /\ \A k \in 1..Len(turns) : Entries(res', turns[k]) = 1]_vars

\* a list with the same turn twice was merged over a visible system message
C16_DuplicateTurnMerged ==
    /\ Len(arg) = 3 /\ arg[1] = arg[3] /\ arg[2] # arg[1]
    /\ Len(res) = 3
    /\ Entries(res, arg[1]) = 1
    /\ res[3].type = "system"

\* C20: no call of disconnect ends with an exception, whether connect was
\* never called, failed or succeeded, at the call or when the promise it
\* awaits settles; and a disconnect that follows a completed disconnect
\* leaves the service as the first one left it.
C20_DisconnectIdempotent ==
    /\ [][~arg'.threw]_vars
    /\ [][Disconnect /\ res.disconnects >= 1
             => [arg' EXCEPT !.events = arg.events] = arg]_vars

\* a channel that opened and captured the microphone was disconnected twice
\* in a row
C20_DisconnectedTwice ==
    /\ res.disconnects = 2
    /\ sessionPromise(arg) = "closed"
    /\ arg.microphoneStream = "stopped"
    /\ arg.scriptProcessor = "disconnected"

-----------------------------------------------------------------------------
(* Properties of streaming.                                                *)

\* the streams of the chat backend that are being read for a view on screen
Streaming(cs) ==
    {i \in DOMAIN cs : cs[i].kind = "chat" /\ cs[i].live /\ ui = "ChatUI"}

IsPrefix(a, b) == Len(a) <= Len(b) /\ SubSeq(b, 1, Len(a)) = a

\* C21: while a stream is read, the model message appended for it shows the
\* concatenation of the chunks received so far, and from one state to the
\* next its content only grows at the end.
C21_ProgressiveContent ==
    /\ [](\A i \in Streaming(calls) :
            (calls[i].sid \in DOMAIN sessions /\ calls[i].chunks # << >>) =>
                /\ calls[i].slot <= Len(Shown(calls[i].sid))
                /\ Shown(calls[i].sid)[calls[i].slot].content
                      = Concat(calls[i].chunks))
    /\ [][\A i \in Streaming(calls), j \in Streaming(calls') :
            (/\ calls'[j].sid = calls[i].sid /\ calls'[j].slot = calls[i].slot
             /\ calls[i].sid \in DOMAIN sessions
             /\ calls[i].sid \in DOMAIN sessions'
             /\ calls[i].slot <= Len(Shown(calls[i].sid))
             /\ calls[i].slot <= Len(ShownNext(calls[i].sid))) =>
                IsPrefix(Shown(calls[i].sid)[calls[i].slot].content,
                         ShownNext(calls[i].sid)[calls[i].slot].content)]_vars

-----------------------------------------------------------------------------
(* Properties of the read-aloud audio                                      *)

\* the send i of the streaming build ends with a standard, non-empty answer
\* in a view that is and stays on screen: handleSendMessage calls
\* prefetchAudio(fullResponse, botMessageIndex)
PrefetchCalled(i) ==
    /\ ui = "ChatUI"
    /\ i \in DOMAIN calls
    /\ calls[i].live
    /\ mounted /\ mounted'
    /\ \/ /\ calls[i].full # << >>
          /\ checkPlaceholders(calls[i].full) = "standard"
          /\ StreamEnd(i)
       \/ \E g \in Grounded : g.text # << >> /\ GroundedAnswer(i, g.sources, g.text)

PrefetchIsNoOpWhenCached ==
    \A i \in 1..MaxCalls :
        PrefetchCalled(i) /\ calls[i].botIdx \in audioCache
            => tts' = tts /\ audioLoadingState' = audioLoadingState

PrefetchSetsLoading ==
    \A i \in 1..MaxCalls :
        PrefetchCalled(i) /\ calls[i].botIdx \notin audioCache
            => /\ calls[i].botIdx \in audioLoadingState'
               /\ tts' = Append(tts, [index |-> calls[i].botIdx, live |-> TRUE,
                                       closure |-> Undef])

PrefetchOutcome ==
    \A j \in 1..MaxSteps :
        /\ Resolved(j) /\ tts[j].live
              => /\ audioCache' = audioCache \cup {tts[j].index}
                 /\ tts[j].index \notin audioLoadingState'
        /\ Rejected(j) /\ tts[j].live
              => /\ audioCache' = audioCache
                 /\ tts[j].index \notin audioLoadingState'

\* C27: prefetchAudio(text, index) does nothing when index is cached;
\* otherwise it sets the loading flag of index and asks for the audio; when
\* the request succeeds the audio is stored under index, when it fails the
\* cache stays as it was, and either outcome clears the loading flag of index.
C27_PrefetchAudio ==
    /\ [][PrefetchIsNoOpWhenCached]_vars
    /\ [][PrefetchSetsLoading]_vars
    /\ [][PrefetchOutcome]_vars

\* the synthesis requests of the view on screen that are in flight
InFlight(index) == {j \in DOMAIN tts : tts[j].live /\ tts[j].index = index}

OneRequestPerIndex ==
    \A index \in 0..(2 * MaxSteps) : Cardinality(InFlight(index)) <= 1

PrefetchIsNoOpWhenLoading ==
    \A i \in 1..MaxCalls :
        PrefetchCalled(i) /\ calls[i].botIdx \in audioLoadingState
            => tts' = tts /\ audioLoadingState' = audioLoadingState

\* C28: at most one synthesis request per message index is in flight at any
\* time: a prefetch of an index whose loading flag is set changes nothing and
\* does not ask the synthesis backend again.
C28_OneRequestPerIndex ==
    /\ []OneRequestPerIndex
    /\ [][PrefetchIsNoOpWhenLoading]_vars

\* the prefetch j is awaited by a handlePlayAudio of the view on screen
Awaited(j) == j \in DOMAIN tts /\ tts[j].live /\ IsDef(tts[j].closure)

\* a source plays the audio of index
Plays(p, index) ==
    \E s \in DOMAIN p.sources :
        p.sources[s].index = index /\ p.sources[s].state = "playing"

PlayFollowsPrefetch ==
    \A j \in 1..MaxSteps :
        /\ Awaited(j) /\ Resolved(j)
              => /\ player'.speaking = Def(tts[j].index)
                 /\ Plays(player', tts[j].index)
        /\ Awaited(j) /\ Rejected(j)
              => /\ player'.speaking = player.speaking
                 /\ player'.sources = player.sources

\* C29: a play of an index that is not cached awaits the prefetch and follows
\* its outcome: after a success the audio of index plays and the speaking
\* index is index; after a failure nothing starts to play and the speaking
\* index stays as it was.
C29_PlayFollowsPrefetch == [][PlayFollowsPrefetch]_vars

\* the speaking index after the playback of index ended by itself
AfterNaturalEnd(speaking, index) ==
    IF speaking = Def(index) THEN Undef ELSE speaking

SourceEndClears ==
    \A s \in 1..MaxSteps :
        /\ s \in DOMAIN player.sources
        /\ player.sources[s].state = "playing"
        /\ player.sources[s].live
        /\ SourceEnded(s)
        => player'.speaking = AfterNaturalEnd(player.speaking, player.sources[s].index)

UtteranceEndClears ==
    UtteranceEnd /\ player.queue[1].live
        => player'.speaking = AfterNaturalEnd(player.speaking, player.queue[1].ts)

\* C30: when the playback of index i ends by itself, the speaking index is
\* cleared if it is still i and is left as it is if it is another one; after
\* such an end with no newer playback nothing is shown as playing.
C30_NaturalEndClears == [][SourceEndClears /\ UtteranceEndClears]_vars

-----------------------------------------------------------------------------
(* Properties of the storage reads                                         *)

Unreadable(item) == IsDef(item) /\ Val(item).kind = "garbage"

\* C36: a stored session map or order list that cannot be read makes
\* loadSessions / loadOrder return the empty map / the empty list without
\* throwing, and the page then creates a fresh session.
C36_UnreadableStorageIsEmpty ==
    /\ (res.fn = "loadSessions" /\ Unreadable(arg.chats))
           => (~res.threw /\ res.value = EmptyMap)
    /\ (res.fn = "loadOrder" /\ Unreadable(arg.order))
           => (~res.threw /\ res.value = << >>)
    /\ (res.fn = "init" /\ (Unreadable(arg.chats) \/ Unreadable(arg.order)))
           => (~res.threw /\ res.value = "session created")

-----------------------------------------------------------------------------
(* Properties of the end of a send                                         *)

\* the send i of the streaming build settles, for good or bad, in the view
\* that started it, which shows its user message and its model message
Succeeds(i) ==
    \/ StreamEnd(i)
    \/ \E g \in Grounded : GroundedAnswer(i, g.sources, g.text)
    \/ \E data \in Bundles : BriefAnswer(i, data)

SettlesShown(i) ==
    /\ ui = "ChatUI"
    /\ i \in DOMAIN calls
    /\ calls[i].live
    /\ mounted /\ mounted'
    /\ calls[i].slot \in 2..Len(Shown(calls[i].sid))
    /\ Shown(calls[i].sid)[calls[i].slot - 1].role = "user"
    /\ Shown(calls[i].sid)[calls[i].slot - 1].content = calls[i].prompt
    /\ Shown(calls[i].sid)[calls[i].slot].role = "model"
    /\ Succeeds(i) \/ Fail(i)

UserMessageKept ==
    \A i \in 1..MaxCalls :
        SettlesShown(i) =>
            LET msgs == ShownNext(calls[i].sid)
                user == msgs[calls[i].slot - 1]
                model == msgs[calls[i].slot]
            IN  /\ user.role = "user"
                /\ user.content = calls[i].prompt
                /\ Succeeds(i) => IsDef(model.suggestedReplies)
                /\ Fail(i) => /\ model.error
                              /\ model.promptForRetry = Def(calls[i].prompt)

\* C37: a send does not alter the user message it appended: when it
\* finishes, well or badly, that message still has role user and the prompt
\* as content, and the final or the error mutation is on the model message
\* appended for the send.
C37_UserMessageKept == [][UserMessageKept]_vars

\* the session of the send i, still awaited by the view on screen, is gone
\* from the sessions of the view (Clear All History removed it)
SessionRemoved(i) ==
    /\ ui = "ChatUI"
    /\ i \in DOMAIN calls
    /\ calls[i].live
    /\ mounted
    /\ calls[i].sid \notin DOMAIN sessions

LateEvent(i) ==
    \/ \E text \in ChunkTexts : StreamChunk(i, text)
    \/ Succeeds(i)
    \/ Fail(i)

LateEventsDropped ==
    \A i \in 1..MaxCalls :
        SessionRemoved(i) /\ LateEvent(i) =>
            /\ ~crashed' /\ mounted'
            /\ sessions' = sessions
            /\ sessionOrder' = sessionOrder
            /\ currentSessionId' = currentSessionId
            /\ ls' = ls

\* C38: when Clear All History removed the session of a send in flight, the
\* late chunk events and the final or error mutation of the send are dropped
\* without an exception, and the one fresh session that clear-all left,
\* current and first in the order list, stays as it is.
C38_LateEventsDropped == [][LateEventsDropped]_vars

-----------------------------------------------------------------------------
(* Properties of the live conversation                                     *)

\* the text of an optional fragment
TextOf(fragment) == IF IsDef(fragment) THEN Val(fragment) ELSE << >>

TurnCommitted ==
    \A k \in Conns, msg \in ServerContents :
        OnMessage(k, msg) /\ msg.turnComplete =>
            LET c == arg.connections[k]
                d == arg'.connections[k]
                input == c.currentInputTranscription \o TextOf(msg.inputTranscription)
                output == c.currentOutputTranscription \o TextOf(msg.outputTranscription)
            IN  /\ d.transcriptionHistory =
                       c.transcriptionHistory \o TurnsOf(input, output)
                /\ d.currentInputTranscription = << >>
                /\ d.currentOutputTranscription = << >>
                /\ arg'.notified = Def(d.transcriptionHistory)

\* C31: on a turn-complete message the live service appends to the history
\* the user turn of the accumulated input if not empty, then the model turn
\* of the accumulated output if not empty, the fragments of that very
\* message included, empties both accumulators and notifies exactly the
\* committed history.
C31_TurnCommitted == [][TurnCommitted]_vars

\* a message that is not turn-complete is handled on connection k
MidTurn(k, msg) == OnMessage(k, msg) /\ ~msg.turnComplete

\* a call of LiveService.connect is made in this step
ConnectCalled ==
    \E q \in 1..MaxQueries, outcome \in ConnectOutcomes :
        PermissionAnswered(q, outcome)

HistoryGrowsOnTurnComplete ==
    \/ ConnectCalled
    \/ \A k \in DOMAIN arg.connections :
           \/ arg'.connections[k].transcriptionHistory =
                  arg.connections[k].transcriptionHistory
           \/ /\ \E msg \in ServerContents : OnMessage(k, msg) /\ msg.turnComplete
              /\ IsPrefix(arg.connections[k].transcriptionHistory,
                          arg'.connections[k].transcriptionHistory)

\* a message that carries a toolCall is handled on connection k: it is not
\* turn-complete
ToolCallMidTurn(k) ==
    \E functionCalls \in Batches(Len(Flatten(res.delivered)) + 1) :
        ToolCall(k, functionCalls)

\* the turns in progress on a connection
InProgress(c) ==
    TurnsOf(c.currentInputTranscription, c.currentOutputTranscription)

MidTurnNotification ==
    \A k \in Conns :
        (ToolCallMidTurn(k) \/ \E msg \in ServerContents : MidTurn(k, msg)) =>
            /\ IsDef(arg'.notified) =>
                   Val(arg'.notified) =
                       arg.connections[k].transcriptionHistory
                           \o InProgress(arg'.connections[k])
            /\ IsDef(arg'.notified) <=> InProgress(arg'.connections[k]) # << >>

\* C32: during a connection the committed history changes only on a
\* turn-complete message, and only by appending; every notification made
\* between two of them is the committed history followed by the in-progress
\* user turn, if not empty, and then the in-progress model turn, if not
\* empty.
C32_MidTurnNotification ==
    [][HistoryGrowsOnTurnComplete /\ MidTurnNotification]_vars

\* a mid-turn notification was made by a message that carried a toolCall,
\* after a committed turn and with both in-progress turns
C32_NotifiedMidTurn ==
    \E k \in DOMAIN arg.connections :
        LET c == arg.connections[k]
        IN  /\ c.promise = "open"
            /\ Len(c.transcriptionHistory) > 0
            /\ c.currentInputTranscription # << >>
            /\ c.currentOutputTranscription # << >>
            /\ arg.toolCall
            /\ IsDef(arg.notified)
            /\ Val(arg.notified) = c.transcriptionHistory \o InProgress(c)

\* the disconnect() calls that await a promise
RECURSIVE Waiting(_)
Waiting(connections) ==
    IF connections = << >> THEN 0
    ELSE Head(connections).awaiting + Waiting(Tail(connections))

ErrorReported ==
    \A k \in Conns :
        OnError(k) /\ arg.connections[k].view => res'.connectionState = "error"

TeardownInvoked ==
    \A k \in Conns :
        OnError(k) =>
            \/ Waiting(arg'.connections) = Waiting(arg.connections) + 1
            \/ arg'.disconnected

\* the error state is left only by a connect: one that is called now, or one
\* called before whose channel opens now; or the view is closed
ErrorStays ==
    res.connectionState = "error" =>
        \/ res'.connectionState = "error"
        \/ ConnectCalled
        \/ \E k \in Conns : OnOpen(k)
        \/ Unmount

\* C35: on an error of the live channel the connection state of the view
\* becomes error and disconnect is called; the state stays error until the
\* user starts a new connect: the close that disconnect performs does not
\* turn it into disconnected.
C35_ErrorStateStays ==
    /\ [][ErrorReported]_vars
    /\ [][TeardownInvoked]_vars
    /\ [][ErrorStays]_vars

\* a call of disconnect() comes to its end in this step; k: the connection
\* whose promise it awaited, 0 when sessionPromise held none
DisconnectCompletes(k) ==
    \/ /\ HandleDisconnect \/ Unmount \/ \E e \in Conns : OnError(e)
       /\ k = Len(arg.connections)
       /\ Waiting(arg'.connections) = Waiting(arg.connections)
    \/ /\ OnOpen(k) \/ ConnectRejected(k)
       /\ arg.connections[k].awaiting > 0

\* inbound audio is still being played
InboundAudible(svc) ==
    \E k \in DOMAIN svc.connections :
        \E i \in DOMAIN svc.connections[k].sources :
            ContextOf(svc.connections[k].sources[i], svc.outputAudioContext)
                \in {"running", "closing"}

CaptureStopped(svc) ==
    /\ svc.microphoneStream # "live"
    /\ svc.scriptProcessor # "connected"

ChannelClosed(svc, k) ==
    k # 0 => svc.connections[k].promise \notin {"pending", "open"}

TornDown(svc, k) ==
    /\ CaptureStopped(svc)
    /\ ~InboundAudible(svc)
    /\ ChannelClosed(svc, k)

\* C34: when a call of disconnect completes, the microphone capture is
\* stopped, every inbound audio source that was playing is stopped and the
\* channel is closed.
C34_DisconnectTearsDown ==
    [][\A k \in 0..MaxConnects : DisconnectCompletes(k) => TornDown(arg', k)]_vars

\* C40: once a disconnect has completed, and until connect is called again,
\* no microphone capture is active, also when the disconnect came while
\* onopen was still waiting for the microphone.
C40_NoCaptureAfterDisconnect ==
    arg.disconnected => arg.liveStreams = 0 /\ arg.microphoneStream # "live"


\* ---------------------------------------------------------------------------
\* Properties of the tool calls of the live conversation
\* ---------------------------------------------------------------------------

\* the transcript text displayed so far
Displayed == TranscriptText(res.liveMessages)

\* a list of the view on screen once the notification of this step, if
\* any, was merged into it
Merged(k, liveMessages) ==
    IF IsDef(arg'.notified) /\ arg.connections[k].view
    THEN handleTranscriptionUpdate(Val(arg'.notified), liveMessages)
    ELSE liveMessages

\* a summarizeConversation call is the first call the handler comes to, on a
\* connection of the view on screen
SummarizeFirst(k, functionCalls) ==
    /\ ToolCall(k, functionCalls)
    /\ arg.connections[k].view
    /\ functionCalls[1].name = "summarizeConversation"

Response(call, result) == [id |-> call.id, name |-> call.name, result |-> result]

\* the displayed transcript is too short: the refusal is returned and the
\* backend is not called
TooShortRefused ==
    [][\A k \in Conns,
          functionCalls \in Batches(Len(Flatten(res.delivered)) + 1) :
          SummarizeFirst(k, functionCalls) /\ Length(Displayed) < MinTranscript
              => /\ res'.responses =
                       Append(res.responses, Response(functionCalls[1], NotEnough))
                 /\ res'.asked = res.asked
                 /\ res'.liveMessages = Merged(k, res.liveMessages)]_vars

\* the displayed transcript is long enough: "Summarizing" is injected and
\* the backend is called with the full displayed transcript
LongEnoughSummarized ==
    [][\A k \in Conns,
          functionCalls \in Batches(Len(Flatten(res.delivered)) + 1) :
          SummarizeFirst(k, functionCalls) /\ Length(Displayed) >= MinTranscript
              => /\ res'.liveMessages =
                       Merged(k, Append(res.liveMessages, System(Summarizing)))
                 /\ res'.asked = Append(res.asked, Displayed)
                 /\ res'.responses = res.responses]_vars

\* the settling of the backend call injects the second system message and
\* returns the matching string for the call that was waiting
SettledAnswered(j, message, result) ==
    LET n == Len(res.liveMessages)
        r == Len(res.responses)
    IN  /\ res.awaiting[j].view =>
               /\ Len(res'.liveMessages) > n
               /\ SubSeq(res'.liveMessages, 1, n + 1) =
                      Append(res.liveMessages, System(message))
        /\ Len(res'.responses) > r
        /\ SubSeq(res'.responses, 1, r + 1) =
               Append(res.responses, Response(Head(res.awaiting[j].left), result))

SummaryAnswered ==
    [][\A j \in 1..MaxBatches :
          /\ SummaryResolves(j)
                 => SettledAnswered(j, <<"Summary: ", "s">>, SummaryShown)
          /\ SummaryRejects(j)
                 => SettledAnswered(j, SummaryFailed, SummaryFailed)]_vars

\* C33: on a summarizeConversation tool call, a displayed transcript shorter
\* than 20 characters gets the "not enough conversation" result and no
\* backend call; one of 20 characters or more gets the "Summarizing" system
\* message, a backend call with the full transcript, a second system message
\* with the summary or the failure notice, and the matching string returned
\* to the channel.
C33_SummarizeByDisplayedLength ==
    TooShortRefused /\ LongEnoughSummarized /\ SummaryAnswered

\* every summarizeConversation call of the delivered batches
SummarizeCalls ==
    LET IsSummarize(call) == call.name = "summarizeConversation"
    IN  SelectSeq(Flatten(res.delivered), IsSummarize)

ResponsesTo(id) ==
    LET ToId(r) == r.id = id
    IN  SelectSeq(res.responses, ToId)

\* C39: once the handler of a batch has run to its end, each
\* summarizeConversation call of the batch has received exactly one tool
\* response carrying its own id, and never more than one before that.
C39_OneResponsePerCall ==
    \A k \in DOMAIN SummarizeCalls :
        /\ Len(ResponsesTo(SummarizeCalls[k].id)) <= 1
        /\ res.awaiting = << >> => Len(ResponsesTo(SummarizeCalls[k].id)) = 1

=============================================================================
